---- MODULE Spec2Model ----
(***************************************************************************)
(* A model of the fire-incident verification pipeline of                   *)
(* twitter_paid_api_crawler: verify_tweets.py (the verification engine,    *)
(* its two sinks and the fanout) and utils.py (the uploader).              *)
(*                                                                         *)
(* Python strings are sequences of one-character strings.  Python's None   *)
(* is the one-element sequence None, whose element is no character.        *)
(***************************************************************************)
EXTENDS Naturals, Integers, Sequences, FiniteSets, TLC

VARIABLES
    \* ---- the run of verify_tweets.main ----
    env,            \* the process environment and the input file's status
    tweets,         \* the content of the candidate input file
    pc,             \* main's position
    i,              \* index of the post the engine loop is at (1-based)
    verified_count, \* the engine's running count
    ledger,         \* the run's JSON ledger file (live_verified_fires_*.json)
    excel,          \* the run's spreadsheet file (verified_fires_*.xlsx)
    calls,          \* history: the external calls made, in order
    info,           \* history: per post, its state, verdict and caught errors
    fanout,         \* history: what send_email_results did
    \* ---- a sink function (or the date fixer) called on its own ----
    handed,         \* history: the entries handed to the sink function
    writes,         \* history: number of times the file was rewritten
    \* ---- two threads inside update_live_json ----
    thr,            \* per thread: position, its own lock, entry, local data
    \* ---- tweet_fire_search: one fetch, deduplicate_tweets ----
    response,       \* fetch: status of the last response received
    events,         \* history: the requests and sleeps of the fetch calls
    fetched,        \* history: what each fetch call returned
    seen_ids,       \* deduplicate_tweets: the ids met so far
    unique_tweets,  \* deduplicate_tweets: the posts kept so far
    \* ---- tweet_fire_search.main: the queries and the candidate file ----
    output_file,    \* the run's candidate file (fire_tweets_72h_*.json)
    \* ---- fix_existing_json_dates run on a file of records ----
    dates,          \* the file the function is run on
    fixes           \* history: per run, fixed_count and whether it wrote

search_vars == <<response, events, fetched, seen_ids, unique_tweets,
                 output_file>>

date_vars == <<dates, fixes>>

vars == <<env, tweets, pc, i, verified_count, ledger, excel, calls, info,
          fanout, handed, writes, thr, search_vars, date_vars>>

(***************************************************************************)
(* Bounds of the model.                                                    *)
(***************************************************************************)
MaxTweets == 2
MaxCalls == 3

(***************************************************************************)
(* Strings.                                                                *)
(***************************************************************************)
None == <<"None">>

Whitespace == {" ", "\n", "\t"}

Digits == {"0", "1", "2", "3", "4", "5", "6", "7", "8", "9"}

Letters == {"a", "e", "f", "g", "h", "i", "n", "o", "r", "s", "t", "y",
            "E", "N", "O", "S", "Y"}

RECURSIVE LStrip(_)
LStrip(s) ==
    IF s # <<>> /\ Head(s) \in Whitespace THEN LStrip(Tail(s)) ELSE s

RECURSIVE RStrip(_)
RStrip(s) ==
    IF s # <<>> /\ s[Len(s)] \in Whitespace
    THEN RStrip(SubSeq(s, 1, Len(s) - 1))
    ELSE s

\* str.strip()
Strip(s) == RStrip(LStrip(s))

LowerChar(c) ==
    CASE c = "Y" -> "y"
      [] c = "E" -> "e"
      [] c = "S" -> "s"
      [] c = "N" -> "n"
      [] c = "O" -> "o"
      [] OTHER -> c

\* str.lower()
Lower(s) == [k \in 1..Len(s) |-> LowerChar(s[k])]

\* str.startswith(p)
StartsWith(s, p) == Len(s) >= Len(p) /\ SubSeq(s, 1, Len(p)) = p

\* dict.get(k) with the default None
Get(d, k) == IF k \in DOMAIN d THEN d[k] ELSE None

Range(s) == {s[k] : k \in 1..Len(s)}

(***************************************************************************)
(* get_fire_related_score: the answer is searched for the first standalone *)
(* token 10 or 0..9, re.search(r'\b(10|[0-9])\b', answer).                 *)
(***************************************************************************)
IsWord(c) == c \in Digits \cup Letters \cup {"_"}

\* \b between positions p and p+1 of a (p in 0..Len(a))
Boundary(a, p) ==
    (IF p = 0 THEN FALSE ELSE IsWord(a[p]))
        # (IF p = Len(a) THEN FALSE ELSE IsWord(a[p + 1]))

DigitVal(c) ==
    CASE c = "0" -> 0 [] c = "1" -> 1 [] c = "2" -> 2 [] c = "3" -> 3
      [] c = "4" -> 4 [] c = "5" -> 5 [] c = "6" -> 6 [] c = "7" -> 7
      [] c = "8" -> 8 [] c = "9" -> 9

\* the value the pattern matches at index p of a, or -1
MatchAt(a, p) ==
    IF ~Boundary(a, p - 1) THEN -1
    ELSE IF /\ p + 1 <= Len(a)
            /\ a[p] = "1"
            /\ a[p + 1] = "0"
            /\ Boundary(a, p + 1)
         THEN 10
    ELSE IF a[p] \in Digits /\ Boundary(a, p) THEN DigitVal(a[p])
    ELSE -1

\* re.search: the leftmost match, or -1
ReSearchScore(a) ==
    LET hits == {p \in 1..Len(a) : MatchAt(a, p) # -1} IN
    IF hits = {} THEN -1
    ELSE MatchAt(a, CHOOSE p \in hits : \A q \in hits : p <= q)

\* A score value: a Python int (isInt) or a Python str (s).
IntScore(n) == [isInt |-> TRUE, n |-> n, s |-> <<>>]

StrScore(s) == [isInt |-> FALSE, n |-> 0, s |-> s]

\* A classifier response: an answer text, or a failure of the call.
Answer(content) == [ok |-> TRUE, content |-> content]

CallFails == [ok |-> FALSE, content |-> <<>>]

GetFireRelatedScore(resp) ==
    IF ~resp.ok \/ resp.content = None
    THEN StrScore(<<>>)                     \* except: return ""
    ELSE LET answer == Strip(resp.content)
             m      == ReSearchScore(answer)
         IN  IF m # -1 THEN IntScore(m) ELSE StrScore(answer)

(***************************************************************************)
(* verify_fire_incident: the stripped answer, or "no" when the call fails. *)
(***************************************************************************)
VerifyFireIncident_YesOnFailure(resp) ==
    IF ~resp.ok \/ resp.content = None
    THEN <<"y", "e", "s">>
    ELSE Strip(resp.content)

VerifyFireIncident(resp) ==
    IF ~resp.ok \/ resp.content = None
    THEN <<"n", "o">>                       \* except: return "no"
    ELSE Strip(resp.content)

\* "yes" in verification_result.lower()
IsPositive_Anywhere(verification_result) ==
    LET v == Lower(verification_result) IN
    \E k \in 1..Len(v) : StartsWith(SubSeq(v, k, Len(v)), <<"y", "e", "s">>)

\* verification_result.lower().startswith("yes")
IsPositive(verification_result) ==
    StartsWith(Lower(verification_result), <<"y", "e", "s">>)

(***************************************************************************)
(* Files.  A file is absent, holds a JSON array / a table (data), or holds *)
(* the partial output of a write that failed after truncating it.          *)
(***************************************************************************)
Absent == [st |-> "absent", data |-> <<>>]

Holding(data) == [st |-> "ok", data |-> data]

Partial == [st |-> "partial", data |-> <<>>]

\* What can go wrong inside one sink append: nothing; the read of the
\* existing file; open(path, 'w') before it truncates; the dump after it.
Faults == {"none", "read", "open", "dump"}

(***************************************************************************)
(* update_live_json(live_json_path, entry).  The lock is created by the    *)
(* call itself, so taking it never waits.  Returns the file afterwards,    *)
(* whether the file was rewritten and whether an exception was caught.     *)
(***************************************************************************)
LiveJsonMissingId(data, entry) ==
    LET existing_ids == [k \in 1..Len(data) |-> Get(data[k], "tweet_id")] IN
    Get(entry, "tweet_id") \notin Range(existing_ids)

\* Lines 105-109: the array the file holds, [] when there is no file.
LiveJsonRead(file, fault) ==
    IF file.st = "partial" \/ (file.st = "ok" /\ fault = "read")
    THEN [caught |-> TRUE, data |-> <<>>]               \* json.load raises
    ELSE [caught |-> FALSE,
          data |-> IF file.st = "ok" THEN file.data ELSE <<>>]

\* Lines 111-118: append and rewrite the file unless the id is known.
LiveJsonWrite(file, data, entry, fault) ==
    IF ~LiveJsonMissingId(data, entry)
    THEN [file |-> file, wrote |-> FALSE, caught |-> FALSE]
    ELSE IF fault = "open"
    THEN [file |-> file, wrote |-> FALSE, caught |-> TRUE]
    ELSE IF fault = "dump"
    THEN [file |-> Partial, wrote |-> FALSE, caught |-> TRUE]
    ELSE [file |-> Holding(Append(data, entry)),
          wrote |-> TRUE, caught |-> FALSE]

UpdateLiveJson(file, entry, fault) ==
    LET r == LiveJsonRead(file, fault) IN
    IF r.caught
    THEN [file |-> file, wrote |-> FALSE, caught |-> TRUE]
    ELSE LiveJsonWrite(file, r.data, entry, fault)

(***************************************************************************)
(* The spreadsheet.  DataFrame.to_excel writes a header row with the       *)
(* column names and one row per row of the frame, a missing value (NaN) as *)
(* an empty cell.  pd.read_excel reads the rows under the header back and  *)
(* turns every cell whose text is one of its default NA strings, the empty *)
(* text among them, into NaN.                                              *)
(***************************************************************************)
NaN == <<"NaN">>

NaStrings == {<<>>, <<"N", "/", "A">>, <<"N", "A">>, <<"n", "u", "l", "l">>}

ReadCell(v) == IF v \in NaStrings THEN NaN ELSE v

WriteCell(v) == IF v = NaN THEN <<>> ELSE v

ReadRow(row) ==
    [f \in DOMAIN row |->
        IF f # "fire_related_score" THEN ReadCell(row[f])
        ELSE IF row[f].isInt THEN row[f]
        ELSE StrScore(ReadCell(row[f].s))]

WriteRow(row) ==
    [f \in DOMAIN row |->
        IF f # "fire_related_score" THEN WriteCell(row[f])
        ELSE IF row[f].isInt THEN row[f]
        ELSE StrScore(WriteCell(row[f].s))]

Columns(df) == UNION {DOMAIN df[k] : k \in 1..Len(df)}

ReadExcel(file) == [k \in 1..Len(file.data) |-> ReadRow(file.data[k])]

ToExcel(df) ==
    [st |-> "ok", data |-> [k \in 1..Len(df) |-> WriteRow(df[k])],
     header |-> Columns(df)]

(***************************************************************************)
(* update_excel_file(excel_path, new_row): read the table, concatenate the *)
(* row, rewrite, then autosize_and_format_excel, which restyles the cells  *)
(* and keeps their values.                                                 *)
(***************************************************************************)
\* pd.concat([df_new, df_existing]): the new row above the existing ones
ConcatRows_NewFirst(df_existing, new_row) == <<new_row>> \o df_existing

\* pd.concat([df_existing, df_new], ignore_index=True)
ConcatRows(df_existing, new_row) == Append(df_existing, new_row)

UpdateExcelFile(file, new_row, fault) ==
    IF file.st = "partial" \/ (file.st = "ok" /\ fault = "read")
    THEN [file |-> file, wrote |-> FALSE, caught |-> TRUE]   \* read_excel raises
    ELSE LET df_combined ==
                 IF file.st = "ok" THEN ConcatRows(ReadExcel(file), new_row)
                 ELSE <<new_row>>
         IN  IF fault = "open"
             THEN [file |-> file, wrote |-> FALSE, caught |-> TRUE]
             ELSE IF fault = "dump"
             THEN [file |-> Partial, wrote |-> FALSE, caught |-> TRUE]
             ELSE [file |-> ToExcel(df_combined),
                   wrote |-> TRUE, caught |-> FALSE]

(***************************************************************************)
(* Posts of the candidate input.  Post k of the input file carries the id  *)
(* PostId(k) and the status URL of that id; ids are unique in the file     *)
(* (tweet_fire_search.save_tweets_to_file deduplicates it).  text is None  *)
(* when the feed gave none (clean_tweets.clean_tweet keeps the None).      *)
(***************************************************************************)
IdChars == <<"1", "2", "3", "4", "5", "6", "7", "8", "9">>

PostId(k) == <<IdChars[k]>>

TextValues == {<<>>, <<" ", "\n">>, <<"f", "i", "r", "e">>, None}

Tweet(k, text) == [id |-> PostId(k), text |-> text, url |-> PostId(k)]

TweetSeqs ==
    UNION {{[k \in 1..n |-> Tweet(k, texts[k])] : texts \in [1..n -> TextValues]}
           : n \in 0..MaxTweets}

\* What the oracle may do on the verdict call and on the scoring call.
ClassifierResponses ==
    {CallFails, Answer(None), Answer(<<" ", "Y", "e", "s">>),
     Answer(<<"n", "o">>), Answer(<<"n", "o", " ", "y", "e", "s">>)}

ScoreResponses == {CallFails, Answer(<<"9">>), Answer(<<"h", "i", "g", "h">>)}

(***************************************************************************)
(* The engine: one pass of the loop body of verify_and_save_tweets.        *)
(***************************************************************************)
\* if not text: continue
HasNoText_Unstripped(text) == text = <<>>

\* if not text.strip(): continue
HasNoText(text) == Strip(text) = <<>>

\* The record of a verified post: it has no tweet_id key.
BuildEntry(tweet, fire_score, verification_result) ==
    [content             |-> tweet.text,
     url                 |-> tweet.url,
     fire_related_score  |-> fire_score,
     verification_result |-> verification_result]

Failed(resp) == ~resp.ok \/ resp.content = None

\* The calls made for a post, with retries: a second verdict call
PositiveCalls_Retrying == <<"verify", "verify", "score", "ledger", "excel">>

\* Lines 504-527: the calls made for a post whose verdict is positive
PositiveCalls == <<"verify", "score", "ledger", "excel">>

\* get_fire_related_score lets the failure of its call through, and the
\* loop's except skips the post.
LoopBody_ScoreRaises(tweet, vresp, sresp, lfault, xfault, led, xls, count) ==
    IF tweet.text = None
    THEN [raised |-> TRUE, ledger |-> led, excel |-> xls, count |-> count,
          calls |-> <<>>, answer |-> None, errs |-> {}]
    ELSE IF HasNoText(tweet.text)
    THEN [raised |-> FALSE, ledger |-> led, excel |-> xls, count |-> count,
          calls |-> <<>>, answer |-> None, errs |-> {}]
    ELSE LET verification_result == VerifyFireIncident(vresp) IN
         IF IsPositive(verification_result) /\ Failed(sresp)
         THEN [raised |-> TRUE, ledger |-> led, excel |-> xls,
               count |-> count, calls |-> <<"verify", "score">>,
               answer |-> verification_result, errs |-> {"score"}]
         ELSE IF IsPositive(verification_result)
         THEN LET fire_score == GetFireRelatedScore(sresp)
                  entry == BuildEntry(tweet, fire_score, verification_result)
                  lj    == UpdateLiveJson(led, entry, lfault)
                  xl    == UpdateExcelFile(xls, entry, xfault)
              IN  [raised |-> FALSE, ledger |-> lj.file, excel |-> xl.file,
                   count |-> count + 1,
                   calls |-> <<"verify", "score", "ledger", "excel">>,
                   answer |-> verification_result,
                   errs |-> (IF lj.caught THEN {"ledger"} ELSE {})
                            \cup (IF xl.caught THEN {"excel"} ELSE {})]
         ELSE [raised |-> FALSE, ledger |-> led, excel |-> xls,
               count |-> count, calls |-> <<"verify">>,
               answer |-> verification_result,
               errs |-> IF Failed(vresp) THEN {"verify"} ELSE {}]

\* raised: an exception reached the loop's own handler.  calls: the calls
\* made, in order.  answer: what verify_fire_incident returned (None when it
\* was not called).  errs: the calls whose failure was caught inside them.
LoopBody(tweet, vresp, sresp, lfault, xfault, led, xls, count) ==
    IF tweet.text = None
    THEN [raised |-> TRUE, ledger |-> led, excel |-> xls, count |-> count,
          calls |-> <<>>, answer |-> None, errs |-> {}]
    ELSE IF HasNoText(tweet.text)
    THEN [raised |-> FALSE, ledger |-> led, excel |-> xls, count |-> count,
          calls |-> <<>>, answer |-> None, errs |-> {}]
    ELSE LET verification_result == VerifyFireIncident(vresp) IN
         IF IsPositive(verification_result)
         THEN LET fire_score == GetFireRelatedScore(sresp)
                  entry == BuildEntry(tweet, fire_score, verification_result)
                  lj    == UpdateLiveJson(led, entry, lfault)
                  xl    == UpdateExcelFile(xls, entry, xfault)
              IN  [raised |-> FALSE, ledger |-> lj.file, excel |-> xl.file,
                   count |-> count + 1,
                   calls |-> PositiveCalls,
                   answer |-> verification_result,
                   errs |-> (IF Failed(vresp) THEN {"verify"} ELSE {})
                            \cup (IF Failed(sresp) THEN {"score"} ELSE {})
                            \cup (IF lj.caught THEN {"ledger"} ELSE {})
                            \cup (IF xl.caught THEN {"excel"} ELSE {})]
         ELSE [raised |-> FALSE, ledger |-> led, excel |-> xls,
               count |-> count, calls |-> <<"verify">>,
               answer |-> verification_result,
               errs |-> IF Failed(vresp) THEN {"verify"} ELSE {}]

\* except Exception: ... raise
OnTweetError_Reraise == "crashed"

\* except Exception: ... continue
OnTweetError == "loop"

(***************************************************************************)
(* utils.send_to_api(json_data_path, verified_count) and its call.         *)
(***************************************************************************)
SendToApiParams == 2

\* What requests.post gives: a 200 with the JSON result, a 200 whose body
\* is not JSON, another status, or an exception.
HttpOutcomes == {"200", "200_nojson", "500", "error"}

\* utils.parse_twitter_date: strptime with the one legacy format, or None.
\* Dates are token sequences (see parse_twitter_date of verify_tweets
\* below); NoDate is None among them.
NoDate == <<<<"None">>>>

UtilsParseTwitterDate(date_string) ==
    LET Days == {"Mon", "Tue", "Wed", "Thu", "Fri", "Sat", "Sun"}
        t == date_string
    IN  IF /\ Len(t) = 6
           /\ \A k \in 1..6 : Len(t[k]) = 1
           /\ t[1][1] \in Days
           /\ t[2][1] \in {"Jul", "Aug"}
           /\ t[3][1] \in {"28"}
           /\ t[4][1] \in {"17:12:07"}
           /\ t[5][1] \in {"+0000", "-0500"}
           /\ t[6][1] \in {"2025"}
        THEN <<<<t[6][1], "-", IF t[2][1] = "Jul" THEN "07" ELSE "08", "-",
                 t[3][1], "T", t[4][1],
                 IF t[5][1] = "+0000" THEN "+00:00" ELSE "-05:00">>>>
        ELSE NoDate

\* float(x), in tenths: of an int, or of a str of decimal digits.
RECURSIVE DigitsVal(_)
DigitsVal(s) ==
    IF s = <<>> THEN 0
    ELSE 10 * DigitsVal(SubSeq(s, 1, Len(s) - 1)) + DigitVal(s[Len(s)])

FloatTenths(score) ==
    IF score.isInt THEN [ok |-> TRUE, tenths |-> 10 * score.n]
    ELSE IF score.s # <<>> /\ \A k \in 1..Len(score.s) : score.s[k] \in Digits
    THEN [ok |-> TRUE, tenths |-> 10 * DigitsVal(score.s)]
    ELSE [ok |-> FALSE, tenths |-> 0]                   \* ValueError

DefaultScoreTenths == 8

ToUploadItem(item) ==
    LET f == IF "fire_related_score" \in DOMAIN item
             THEN FloatTenths(item.fire_related_score)
             ELSE [ok |-> TRUE, tenths |-> DefaultScoreTenths]
        raw_published_date ==
             IF "published_date" \in DOMAIN item THEN item.published_date
             ELSE <<>>
    IN  [ok   |-> f.ok,
         item |-> [content |-> Get(item, "content"),
                   published_date |->
                       IF raw_published_date # <<>>
                       THEN UtilsParseTwitterDate(raw_published_date)
                       ELSE NoDate,
                   url |-> Get(item, "url"),
                   fire_related_score |-> f.tenths,
                   verification_result |-> Get(item, "verification_result")]]

\* return True whatever the status
ReturnsTrue_AnyResponse(http) == http # "error"

\* if response.status_code == 200: result = response.json() ... return True
ReturnsTrue(http) == http = "200"

\* The body of send_to_api; everything it raises it catches.
SendToApiBody(json_data_path, files, http) ==
    LET f == files[json_data_path] IN
    IF f.st = "absent" THEN [posts |-> <<>>, ok |-> FALSE]
    ELSE IF json_data_path # "json_path" \/ f.st # "ok"
    THEN [posts |-> <<>>, ok |-> FALSE]                 \* json.load raises
    ELSE LET mapped == [k \in 1..Len(f.data) |-> ToUploadItem(f.data[k])] IN
         IF \E k \in 1..Len(mapped) : ~mapped[k].ok
         THEN [posts |-> <<>>, ok |-> FALSE]            \* float() raises
         ELSE IF http = "error"
         THEN [posts |-> <<>>, ok |-> FALSE]            \* requests.post raises
         ELSE [posts |-> <<[k \in 1..Len(mapped) |-> mapped[k].item]>>,
               ok |-> ReturnsTrue(http)]

\* A call send_to_api(*args): Python binds the arguments before the body runs
\* and raises TypeError at the call when their number is not the parameters'.
SendToApi(args, files, http) ==
    IF Len(args) # SendToApiParams
    THEN [typeError |-> TRUE, entered |-> FALSE, posts |-> <<>>, ok |-> FALSE]
    ELSE LET b == SendToApiBody(args[1], files, http) IN
         [typeError |-> FALSE, entered |-> TRUE, posts |-> b.posts, ok |-> b.ok]

(***************************************************************************)
(* send_email_results(excel_path, json_path, verified_count): credentials, *)
(* message, attachments, SMTP, and then the upload, all in one try block.  *)
(***************************************************************************)
\* Where the notifier can fail: reading an attachment; SMTP connect, login
\* or sendmail; server.quit() after the message has gone out.
MailFaults == {"none", "attach", "smtp", "quit"}

Paths == {"excel_path", "json_path"}

\* with open(path, "wb"): the file is emptied when it is opened
ReadAttachment_Truncating(file) == Partial

\* with open(path, "rb") as attachment: ... attachment.read()
ReadAttachment(file) == file

\* The result's files are the two files as the call leaves them.
SendEmailResultsOp(creds, mfault, http, files, count) ==
    LET attached == {p \in Paths : files[p].st # "absent"}
        read     == [p \in Paths |-> IF p \in attached
                                     THEN ReadAttachment(files[p])
                                     ELSE files[p]]
        nothing  == [sent |-> FALSE, attached |-> {}, caught |-> FALSE,
                     api_called |-> FALSE, api_entered |-> FALSE,
                     posts |-> <<>>, files |-> files]
    IN
    IF ~creds THEN nothing                              \* return
    ELSE IF mfault = "attach" /\ attached # {}
    THEN [nothing EXCEPT !.caught = TRUE]
    ELSE IF mfault = "smtp"
    THEN [nothing EXCEPT !.caught = TRUE, !.files = read]
    ELSE IF mfault = "quit"
    THEN [nothing EXCEPT !.sent = TRUE, !.attached = attached,
                         !.caught = TRUE, !.files = read]
    ELSE LET api == SendToApi(<<"excel_path", "json_path", count>>,
                              read, http)
         IN  [sent |-> TRUE, attached |-> attached, caught |-> api.typeError,
              api_called |-> TRUE, api_entered |-> api.entered,
              posts |-> api.posts, files |-> read]

(***************************************************************************)
(* The run of verify_tweets.main.                                          *)
(***************************************************************************)
\* The input: no file found by the globs; a named path that does not
\* exist; a file that exists and cannot be read as JSON; a readable file.
InputStatuses == {"nofile", "missing", "unreadable", "ok"}

Envs == [input : InputStatuses, openai_key : BOOLEAN, email_creds : BOOLEAN]

Pending == [st |-> "Pending", answer |-> None, errs |-> {}]

NoFanout == [invoked |-> 0, emails |-> <<>>, notifier_failed |-> FALSE,
             api_called |-> 0, api_entered |-> 0, posts |-> <<>>]

NoThreads == <<>>

\* The variables of the search stage and of the date fixer, at rest.
NoResponse == [status |-> "none", tweets |-> <<>>]

IdleSearch ==
    /\ response = NoResponse
    /\ events = <<>>
    /\ fetched = <<>>
    /\ seen_ids = {}
    /\ unique_tweets = <<>>
    /\ output_file = Absent

IdleDates ==
    /\ dates = Absent
    /\ fixes = <<>>

InitRun ==
    /\ env \in Envs
    /\ tweets \in (IF env.input = "ok" THEN TweetSeqs ELSE {<<>>})
    /\ pc = "start"
    /\ i = 1
    /\ verified_count = 0
    /\ ledger = Absent
    /\ excel = Absent
    /\ calls = <<>>
    /\ info = [k \in 1..Len(tweets) |-> Pending]
    /\ fanout = NoFanout

Init ==
    /\ InitRun
    /\ handed = <<>>
    /\ writes = 0
    /\ thr = NoThreads
    /\ IdleSearch
    /\ IdleDates

\* main, lines 577-611: pick the input file, check it exists, check the key.
MainStart ==
    /\ pc = "start"
    /\ pc' = IF env.input \in {"nofile", "missing"} \/ ~env.openai_key
             THEN "returned"
             ELSE "fix_dates"
    /\ UNCHANGED <<env, tweets, i, verified_count, ledger, excel, calls, info,
                   fanout, handed, writes, thr,
                   search_vars, date_vars>>

\* fix_existing_json_dates on the input file: a post has no published_date
\* key, so nothing is fixed and the file is not rewritten; an unreadable
\* file raises inside the function's own try.
FixInputDates ==
    /\ pc = "fix_dates"
    /\ pc' = "load"
    /\ UNCHANGED <<env, tweets, i, verified_count, ledger, excel, calls, info,
                   fanout, handed, writes, thr,
                   search_vars, date_vars>>

\* verify_and_save_tweets, lines 464-484.  When the load fails the function
\* returns None and main's unpacking of the result raises.
LoadTweets ==
    /\ pc = "load"
    /\ pc' = IF env.input = "unreadable" THEN "crashed" ELSE "loop"
    /\ i' = 1
    /\ verified_count' = 0
    /\ UNCHANGED <<env, tweets, ledger, excel, calls, info, fanout, handed,
                   writes, thr,
                   search_vars, date_vars>>

\* The outcomes worth drawing for a post: a call that is not made has no
\* outcome, and a fault needs an operation to strike.
ReachesClassifier(tweet) == tweet.text # None /\ ~HasNoText(tweet.text)

ReachesSinks(tweet, vresp) ==
    ReachesClassifier(tweet) /\ IsPositive(VerifyFireIncident(vresp))

VerdictDraws(tweet) ==
    IF ReachesClassifier(tweet) THEN ClassifierResponses ELSE {CallFails}

ScoreDraws(tweet, vresp) ==
    IF ReachesSinks(tweet, vresp) THEN ScoreResponses ELSE {CallFails}

FaultDraws(tweet, vresp, file) ==
    IF ~ReachesSinks(tweet, vresp) \/ file.st = "partial" THEN {"none"}
    ELSE IF file.st = "absent" THEN Faults \ {"read"}
    ELSE Faults

\* One iteration of the loop, lines 487-537.
ProcessTweet ==
    /\ pc = "loop"
    /\ i <= Len(tweets)
    /\ \E vresp \in VerdictDraws(tweets[i]) :
       \E sresp \in ScoreDraws(tweets[i], vresp) :
       \E lfault \in FaultDraws(tweets[i], vresp, ledger) :
       \E xfault \in FaultDraws(tweets[i], vresp, excel) :
          LET r == LoopBody(tweets[i], vresp, sresp, lfault, xfault,
                            ledger, excel, verified_count)
          IN  /\ ledger' = r.ledger
              /\ excel' = r.excel
              /\ verified_count' = r.count
              /\ calls' = calls \o [k \in 1..Len(r.calls) |-> <<r.calls[k], i>>]
              /\ info' = [info EXCEPT ![i] =
                     [st |-> IF r.count > verified_count
                             THEN "Persisted" ELSE "Skipped",
                      answer |-> r.answer,
                      errs |-> IF r.raised THEN {"engine"} ELSE r.errs]]
              /\ pc' = IF r.raised THEN OnTweetError ELSE "loop"
    /\ i' = i + 1
    /\ UNCHANGED <<env, tweets, fanout, handed, writes, thr,
                   search_vars, date_vars>>

\* if verified_count >= 0
FanoutGate_FromZero(count) == count >= 0

\* if verified_count > 0
FanoutGate(count) == count > 0

\* The loop is over: verify_and_save_tweets returns and main decides.
ReturnAndGate ==
    /\ pc = "loop"
    /\ i > Len(tweets)
    /\ pc' = IF FanoutGate(verified_count) THEN "fanout" ELSE "done"
    /\ UNCHANGED <<env, tweets, i, verified_count, ledger, excel, calls, info,
                   fanout, handed, writes, thr,
                   search_vars, date_vars>>

SendEmailResults ==
    /\ pc = "fanout"
    /\ \E mfault \in MailFaults, http \in HttpOutcomes :
          LET r == SendEmailResultsOp(env.email_creds, mfault, http,
                       [excel_path |-> excel, json_path |-> ledger],
                       verified_count)
          IN  /\ fanout' =
                   [invoked |-> fanout.invoked + 1,
                    emails |-> IF r.sent
                               THEN Append(fanout.emails,
                                           [count |-> verified_count,
                                            attached |-> r.attached])
                               ELSE fanout.emails,
                    notifier_failed |-> ~r.sent \/ mfault = "quit",
                    api_called |-> fanout.api_called
                                     + (IF r.api_called THEN 1 ELSE 0),
                    api_entered |-> fanout.api_entered
                                      + (IF r.api_entered THEN 1 ELSE 0),
                    posts |-> fanout.posts \o r.posts]
              /\ excel' = r.files.excel_path
              /\ ledger' = r.files.json_path
    /\ pc' = "done"
    /\ UNCHANGED <<env, tweets, i, verified_count, calls, info,
                   handed, writes, thr,
                   search_vars, date_vars>>

Next ==
    \/ MainStart
    \/ FixInputDates
    \/ LoadTweets
    \/ ProcessTweet
    \/ ReturnAndGate
    \/ SendEmailResults

Spec == Init /\ [][Next]_vars

\* The run is one sequential process: a step that can be taken is taken.
SpecLive == Spec /\ WF_vars(Next)

(***************************************************************************)
(* update_live_json called on its own, up to MaxCalls times on one path    *)
(* that starts absent.  The entries are records of verified posts, of one  *)
(* shape per behaviour: as the engine builds them (no tweet_id key), or    *)
(* carrying the post's id under tweet_id, the key update_live_json reads   *)
(* (the shape of the records in utils.create_test_data).                   *)
(***************************************************************************)
Shapes == {"engine", "with_tweet_id"}

EntryOf(k, shape) ==
    LET e == BuildEntry(Tweet(k, <<"f", "i", "r", "e">>), IntScore(9),
                        <<"Y", "e", "s">>)
    IN  IF shape = "engine" THEN e ELSE [tweet_id |-> PostId(k)] @@ e

IdleRun ==
    /\ tweets = <<>>
    /\ i = 1
    /\ verified_count = 0
    /\ excel = Absent
    /\ calls = <<>>
    /\ info = <<>>
    /\ fanout = NoFanout

InitLedger ==
    /\ IdleRun
    /\ env \in [shape : Shapes]
    /\ pc = "update_live_json"
    /\ ledger = Absent
    /\ handed = <<>>
    /\ writes = 0
    /\ thr = NoThreads
    /\ IdleSearch
    /\ IdleDates

CallUpdateLiveJson ==
    /\ pc = "update_live_json"
    /\ Len(handed) < MaxCalls
    /\ \E k \in 1..MaxTweets, fault \in Faults :
          LET entry == EntryOf(k, env.shape)
              r     == UpdateLiveJson(ledger, entry, fault)
          IN  /\ ledger' = r.file
              /\ writes' = writes + (IF r.wrote THEN 1 ELSE 0)
              /\ handed' = Append(handed, [entry |-> entry, wrote |-> r.wrote,
                                           caught |-> r.caught,
                                           before |-> ledger.st,
                                           fault |-> fault])
    /\ UNCHANGED <<env, tweets, pc, i, verified_count, excel, calls, info,
                   fanout, thr,
                   search_vars, date_vars>>

NextLedger == CallUpdateLiveJson

SpecLedger == InitLedger /\ [][NextLedger]_vars

(***************************************************************************)
(* update_excel_file called on its own, up to MaxCalls times on one path   *)
(* that starts absent, with the rows the engine builds for verified posts: *)
(* the score an integer, the text of an answer that holds no score, or     *)
(* the empty text of a failed scoring call.                                *)
(***************************************************************************)
RowScores ==
    {GetFireRelatedScore(resp) :
        resp \in ScoreResponses \cup {Answer(<<"N", "/", "A">>)}}

RowOf(k, fire_score) ==
    BuildEntry(Tweet(k, <<"f", "i", "r", "e">>), fire_score, <<"Y", "e", "s">>)

InitExcel ==
    /\ IdleRun
    /\ env \in [shape : {"engine"}]
    /\ pc = "update_excel_file"
    /\ ledger = Absent
    /\ handed = <<>>
    /\ writes = 0
    /\ thr = NoThreads
    /\ IdleSearch
    /\ IdleDates

CallUpdateExcelFile ==
    /\ pc = "update_excel_file"
    /\ Len(handed) < MaxCalls
    /\ \E k \in 1..MaxTweets, fire_score \in RowScores, fault \in Faults :
          LET new_row == RowOf(k, fire_score)
              r       == UpdateExcelFile(excel, new_row, fault)
          IN  /\ excel' = r.file
              /\ writes' = writes + (IF r.wrote THEN 1 ELSE 0)
              /\ handed' = Append(handed, [entry |-> new_row, wrote |-> r.wrote,
                                           caught |-> r.caught,
                                           was |-> excel])
    /\ UNCHANGED <<env, tweets, pc, i, verified_count, ledger, calls, info,
                   fanout, thr, search_vars, date_vars>>

NextExcel == CallUpdateExcelFile

SpecExcel == InitExcel /\ [][NextExcel]_vars

(***************************************************************************)
(* Two threads of one process, each inside one call of update_live_json on *)
(* the same path, with the records of two different posts.  A call makes   *)
(* its lock (line 102), takes it, reads the file, writes the file and      *)
(* leaves the with block.  File reads and writes release the interpreter,  *)
(* so the threads' steps interleave freely wherever no lock forbids it.    *)
(***************************************************************************)
Threads == {1, 2}

InitConc ==
    /\ IdleRun
    /\ env \in [shape : Shapes]
    /\ pc = "threads"
    /\ ledger = Absent
    /\ handed = <<>>
    /\ writes = 0
    /\ thr = [t \in Threads |->
                [pc |-> "call", lock |-> 0, entry |-> EntryOf(t, env.shape),
                 data |-> <<>>, wrote |-> FALSE, caught |-> FALSE]]
    /\ IdleSearch
    /\ IdleDates

\* The locks that exist and are held: lock t is the object made by thread
\* t's call.
HeldLocks == {thr[t].lock : t \in {u \in Threads : thr[u].pc \in {"locked", "read"}}}

\* lock = threading.Lock(); with lock:
NewLock(t) == t

EnterLock(t) ==
    /\ pc = "threads"
    /\ thr[t].pc = "call"
    /\ NewLock(t) \notin HeldLocks
    /\ thr' = [thr EXCEPT ![t].pc = "locked", ![t].lock = NewLock(t)]
    /\ UNCHANGED <<env, tweets, pc, i, verified_count, ledger, excel, calls,
                   info, fanout, handed, writes,
                   search_vars, date_vars>>

ThreadRead(t) ==
    /\ pc = "threads"
    /\ thr[t].pc = "locked"
    /\ \E fault \in {"none", "read"} :
          LET r == LiveJsonRead(ledger, fault) IN
          thr' = [thr EXCEPT ![t].pc = IF r.caught THEN "unlock" ELSE "read",
                             ![t].data = r.data,
                             ![t].caught = r.caught]
    /\ UNCHANGED <<env, tweets, pc, i, verified_count, ledger, excel, calls,
                   info, fanout, handed, writes,
                   search_vars, date_vars>>

ThreadWrite(t) ==
    /\ pc = "threads"
    /\ thr[t].pc = "read"
    /\ \E fault \in {"none", "open", "dump"} :
          LET r == LiveJsonWrite(ledger, thr[t].data, thr[t].entry, fault) IN
          /\ ledger' = r.file
          /\ writes' = writes + (IF r.wrote THEN 1 ELSE 0)
          /\ thr' = [thr EXCEPT ![t].pc = "unlock", ![t].wrote = r.wrote,
                                ![t].caught = r.caught]
    /\ UNCHANGED <<env, tweets, pc, i, verified_count, excel, calls, info,
                   fanout, handed,
                   search_vars, date_vars>>

LeaveLock(t) ==
    /\ pc = "threads"
    /\ thr[t].pc = "unlock"
    /\ thr' = [thr EXCEPT ![t].pc = "returned"]
    /\ handed' = Append(handed, [entry |-> thr[t].entry,
                                 wrote |-> thr[t].wrote,
                                 caught |-> thr[t].caught])
    /\ UNCHANGED <<env, tweets, pc, i, verified_count, ledger, excel, calls,
                   info, fanout, writes,
                   search_vars, date_vars>>

NextConc ==
    \E t \in Threads :
        \/ EnterLock(t)
        \/ ThreadRead(t)
        \/ ThreadWrite(t)
        \/ LeaveLock(t)

SpecConc == InitConc /\ [][NextConc]_vars

(***************************************************************************)
(* tweet_fire_search.deduplicate_tweets(tweets), one loop iteration per    *)
(* step.  A post of the feed is a dict that may lack the id key, or carry  *)
(* null or the empty text under it; text tells posts with one id apart.    *)
(***************************************************************************)
FeedIds == {None, <<>>, PostId(1), PostId(2)}

FeedTexts == {<<"a">>, <<"b">>}

FeedPosts ==
    [text : FeedTexts] \cup [id : FeedIds, text : FeedTexts]

\* if tweet_id
KeepTweet_NoSeenCheck(tweet_id, seen) == tweet_id # None /\ tweet_id # <<>>

\* if tweet_id not in seen_ids
KeepTweet_AnyId(tweet_id, seen) == tweet_id \notin seen

\* if tweet_id and tweet_id not in seen_ids
KeepTweet(tweet_id, seen) ==
    tweet_id # None /\ tweet_id # <<>> /\ tweet_id \notin seen

InitDedupe ==
    /\ env \in [shape : {"feed"}]
    /\ tweets \in UNION {[1..n -> FeedPosts] : n \in 0..MaxTweets}
    /\ pc = "deduplicate_tweets"
    /\ i = 1
    /\ verified_count = 0
    /\ ledger = Absent
    /\ excel = Absent
    /\ calls = <<>>
    /\ info = <<>>
    /\ fanout = NoFanout
    /\ handed = <<>>
    /\ writes = 0
    /\ thr = NoThreads
    /\ IdleSearch
    /\ IdleDates

DedupeStep ==
    /\ pc = "deduplicate_tweets"
    /\ i <= Len(tweets)
    /\ LET tweet    == tweets[i]
           tweet_id == Get(tweet, "id")
       IN  IF KeepTweet(tweet_id, seen_ids)
           THEN /\ seen_ids' = seen_ids \cup {tweet_id}
                /\ unique_tweets' = Append(unique_tweets, tweet)
           ELSE UNCHANGED <<seen_ids, unique_tweets>>
    /\ i' = i + 1
    /\ UNCHANGED <<env, tweets, pc, verified_count, ledger, excel, calls,
                   info, fanout, handed, writes, thr, response, events,
                   fetched, output_file, date_vars>>

DedupeReturn ==
    /\ pc = "deduplicate_tweets"
    /\ i > Len(tweets)
    /\ pc' = "deduplicated"
    /\ UNCHANGED <<env, tweets, i, verified_count, ledger, excel, calls,
                   info, fanout, handed, writes, thr, search_vars, date_vars>>

NextDedupe == DedupeStep \/ DedupeReturn

SpecDedupe == InitDedupe /\ [][NextDedupe]_vars

(***************************************************************************)
(* tweet_fire_search.fetch_tweets and fetch_user_tweets, which differ in   *)
(* the query text only: up to MaxCalls calls in a row, as main makes them. *)
(* A request gives a response with a status and a body, or raises.         *)
(***************************************************************************)
FetchFunctions == {"fetch_tweets", "fetch_user_tweets"}

Statuses == {"200", "429", "500"}

\* The posts of a response body; fewer than max_results (20), so that
\* tweets[:max_results] is the whole list.
Bodies == {<<>>, <<[id |-> PostId(1), text |-> <<"a">>]>>}

\* time.sleep(60)
BackoffSeconds == 60

\* if response.status_code != 200
RateLimited_AnyError(status) == status # "200"

\* if response.status_code == 429
RateLimited(status) == status = "429"

ThisCall == Len(fetched) + 1

GetEvent(status) == [call |-> ThisCall, what |-> "get", status |-> status,
                     secs |-> 0]

SleepEvent == [call |-> ThisCall, what |-> "sleep", status |-> "none",
               secs |-> BackoffSeconds]

InitFetch ==
    /\ env \in [fn : FetchFunctions]
    /\ tweets = <<>>
    /\ pc = "fetch"
    /\ i = 1
    /\ verified_count = 0
    /\ ledger = Absent
    /\ excel = Absent
    /\ calls = <<>>
    /\ info = <<>>
    /\ fanout = NoFanout
    /\ handed = <<>>
    /\ writes = 0
    /\ thr = NoThreads
    /\ IdleSearch
    /\ IdleDates

\* requests.get(...): a response, or an exception, which ends the call
\* with [].
RequestsGet(then) ==
    \/ \E status \in Statuses, body \in Bodies :
          /\ response' = [status |-> status,
                          tweets |-> IF status = "200" THEN body ELSE <<>>]
          /\ events' = Append(events, GetEvent(status))
          /\ pc' = then
          /\ UNCHANGED fetched
    \/ /\ events' = Append(events, GetEvent("error"))
       /\ fetched' = Append(fetched, <<>>)
       /\ response' = NoResponse
       /\ pc' = "fetch"

FetchGet ==
    /\ pc = "fetch"
    /\ Len(fetched) < MaxCalls
    /\ RequestsGet("got")
    /\ UNCHANGED <<env, tweets, i, verified_count, ledger, excel, calls,
                   info, fanout, handed, writes, thr, seen_ids,
                   unique_tweets, output_file, date_vars>>

\* handle_rate_limit(response), entered when the first response is a 429.
HandleRateLimit ==
    /\ pc = "got"
    /\ RateLimited(response.status)
    /\ events' = IF RateLimited(response.status)
                 THEN Append(events, SleepEvent)
                 ELSE events
    /\ pc' = "retry"
    /\ UNCHANGED <<env, tweets, i, verified_count, ledger, excel, calls,
                   info, fanout, handed, writes, thr, response, fetched,
                   seen_ids, unique_tweets, output_file, date_vars>>

FetchRetry ==
    /\ pc = "retry"
    /\ RequestsGet("final")
    /\ UNCHANGED <<env, tweets, i, verified_count, ledger, excel, calls,
                   info, fanout, handed, writes, thr, seen_ids,
                   unique_tweets, output_file, date_vars>>

\* if response.status_code == 200: return tweets[:max_results]
\* else: return []
FetchReturn ==
    /\ \/ pc = "got" /\ ~RateLimited(response.status)
       \/ pc = "final"
    /\ fetched' = Append(fetched, IF response.status = "200"
                                  THEN response.tweets ELSE <<>>)
    /\ response' = NoResponse
    /\ pc' = "fetch"
    /\ UNCHANGED <<env, tweets, i, verified_count, ledger, excel, calls,
                   info, fanout, handed, writes, thr, events, seen_ids,
                   unique_tweets, output_file, date_vars>>

NextFetch ==
    \/ FetchGet
    \/ HandleRateLimit
    \/ FetchRetry
    \/ FetchReturn

SpecFetch == InitFetch /\ [][NextFetch]_vars

(***************************************************************************)
(* tweet_fire_search.main: MaxCalls queries in a row, those of the search  *)
(* combinations and then one of an account, each followed by               *)
(* save_tweets_to_file when it returned posts.  output_file has a name     *)
(* with the second the run starts in; it is absent at the start, or holds  *)
(* what an interrupted run of the same second left.  fetched keeps, per    *)
(* query, what the fetch returned and the file before and after.           *)
(***************************************************************************)
RECURSIVE DedupeLoop(_, _, _)
\* Lines 151-155 on the rest of the list, with seen_ids and unique_tweets.
DedupeLoop(rest, seen, kept) ==
    IF rest = <<>> THEN kept
    ELSE LET tweet    == Head(rest)
             tweet_id == Get(tweet, "id")
         IN  IF KeepTweet(tweet_id, seen)
             THEN DedupeLoop(Tail(rest), seen \cup {tweet_id},
                             Append(kept, tweet))
             ELSE DedupeLoop(Tail(rest), seen, kept)

\* return tweets
DeduplicateTweets_KeepAll(all_tweets) == all_tweets

DeduplicateTweets(all_tweets) == DedupeLoop(all_tweets, {}, <<>>)

\* all_tweets = tweets + existing_tweets
CombineTweets_NewFirst(existing_tweets, batch) == batch \o existing_tweets

\* all_tweets = existing_tweets + tweets
CombineTweets(existing_tweets, batch) == existing_tweets \o batch

\* What can go wrong in the rewrite: nothing; open(filename, 'w') before it
\* truncates; the dump after it.  Nothing in the function catches either.
SaveFaults == {"none", "open", "dump"}

SaveTweetsToFile(file, batch, fault) ==
    LET existing_tweets == IF file.st = "ok" THEN file.data ELSE <<>>
        all_tweets      == CombineTweets(existing_tweets, batch)
        unique          == DeduplicateTweets(all_tweets)
    IN  IF fault = "open" THEN [file |-> file, raised |-> TRUE]
        ELSE IF fault = "dump" THEN [file |-> Partial, raised |-> TRUE]
        ELSE [file |-> Holding(unique), raised |-> FALSE]

\* The posts of the response bodies: overlapping within a body, between
\* bodies, and with and without an id.
SearchBodies ==
    { <<>>,
      <<[id |-> PostId(1), text |-> <<"a">>]>>,
      <<[id |-> PostId(1), text |-> <<"b">>],
        [id |-> PostId(2), text |-> <<"a">>]>>,
      <<[id |-> PostId(2), text |-> <<"b">>],
        [id |-> PostId(2), text |-> <<"a">>]>>,
      <<[id |-> <<>>, text |-> <<"a">>],
        [id |-> PostId(3), text |-> <<"a">>]>>,
      <<[text |-> <<"b">>]>> }

\* What a request gives: a response, or an exception (status "error").
FetchResponses ==
    {[status |-> "error", tweets |-> <<>>]} \cup
    {[status |-> st, tweets |-> IF st = "200" THEN body ELSE <<>>] :
         st \in Statuses, body \in SearchBodies}

\* except Exception: ... raise
FetchFailed_Raises == [failed |-> TRUE, raised |-> TRUE, tweets |-> <<>>]

\* else: ... return [] and except Exception: ... return []
FetchFailed == [failed |-> TRUE, raised |-> FALSE, tweets |-> <<>>]

\* fetch_tweets and fetch_user_tweets as a function of the responses to the
\* request and to its retry.
FetchTweets(first, retry) ==
    IF first.status = "error" THEN FetchFailed
    ELSE LET last == IF RateLimited(first.status) THEN retry ELSE first IN
         IF last.status = "200"
         THEN [failed |-> FALSE, raised |-> FALSE, tweets |-> last.tweets]
         ELSE FetchFailed

QueryFunction(q) ==
    IF q < MaxCalls THEN "fetch_tweets" ELSE "fetch_user_tweets"

InitSearch ==
    /\ IdleRun
    /\ env \in [shape : {"search"}]
    /\ pc = "query"
    /\ ledger = Absent
    /\ handed = <<>>
    /\ writes = 0
    /\ thr = NoThreads
    /\ response = NoResponse
    /\ events = <<>>
    /\ fetched = <<>>
    /\ seen_ids = {}
    /\ unique_tweets = <<>>
    /\ output_file \in {Absent, Partial}
    /\ IdleDates

\* One pass of the loop of lines 197-210 or of lines 216-229.
RunQuery ==
    /\ pc = "query"
    /\ i <= MaxCalls
    /\ \E first \in FetchResponses, retry \in FetchResponses,
          fault \in SaveFaults :
          LET r  == FetchTweets(first, retry)
              sv == IF r.tweets # <<>> /\ ~r.raised
                    THEN SaveTweetsToFile(output_file, r.tweets, fault)
                    ELSE [file |-> output_file, raised |-> FALSE]
          IN  /\ (r.tweets = <<>> \/ r.raised) => fault = "none"
              /\ output_file' = sv.file
              /\ fetched' = Append(fetched,
                     [fn |-> QueryFunction(i), failed |-> r.failed,
                      tweets |-> r.tweets, before |-> output_file,
                      after |-> sv.file,
                      raised |-> r.raised \/ sv.raised])
              /\ pc' = IF r.raised \/ sv.raised THEN "crashed"
                       ELSE "query"
    /\ i' = i + 1
    /\ UNCHANGED <<env, tweets, verified_count, ledger, excel, calls, info,
                   fanout, handed, writes, thr, response, events, seen_ids,
                   unique_tweets, date_vars>>

\* Lines 231-243: the summary.
SearchSummary ==
    /\ pc = "query"
    /\ i > MaxCalls
    /\ pc' = "done"
    /\ UNCHANGED <<env, tweets, i, verified_count, ledger, excel, calls,
                   info, fanout, handed, writes, thr, search_vars, date_vars>>

NextSearch == RunQuery \/ SearchSummary

SpecSearch == InitSearch /\ [][NextSearch]_vars

(***************************************************************************)
(* verify_tweets.parse_twitter_date and fix_existing_json_dates.  A date   *)
(* text is the sequence of its whitespace-separated tokens, which is what  *)
(* email.utils splits it into first; a token is a sequence of pieces.  The *)
(* empty text has no token.                                                *)
(***************************************************************************)
DayNames == {"Mon", "Tue", "Wed", "Thu", "Fri", "Sat", "Sun"}

\* datetime.isoformat(): one token, YYYY-MM-DDTHH:MM:SS+HH:MM.
IsoFormat(d) ==
    <<<<d.yy, "-", IF d.mm = "Jul" THEN "07" ELSE "08", "-", d.dd, "T", d.tm,
        IF d.tz = "+0000" THEN "+00:00" ELSE "-05:00">>>>

\* email.utils.parsedate_to_datetime: drop a leading day name, need five
\* tokens, put day/month, year/time and year/zone in their places, and
\* fail on anything that is not a date.
ParsedateToDatetime(date_string) ==
    LET Months  == {"Jul", "Aug"}
        Numbers == {"28", "2025"}
        Times   == {"17:12:07"}
        Zones   == {"+0000", "-0500"}
        first   == date_string[1]
        data    == IF first[Len(first)] = "," \/ first[1] \in DayNames
                   THEN Tail(date_string) ELSE date_string
    IN  IF Len(data) < 5 THEN [ok |-> FALSE]
        ELSE LET dd0 == data[1][1]
                 mm0 == data[2][1]
                 yy0 == data[3][1]
                 tm0 == data[4][1]
                 tz0 == data[5][1]
                 dd  == IF mm0 \in Months THEN dd0 ELSE mm0
                 mm  == IF mm0 \in Months THEN mm0 ELSE dd0
                 yy1 == IF yy0 \in Times THEN tm0 ELSE yy0
                 tm  == IF yy0 \in Times THEN yy0 ELSE tm0
                 yy  == IF yy1 \in Numbers THEN yy1 ELSE tz0
                 tz  == IF yy1 \in Numbers THEN tz0 ELSE yy1
             IN  IF /\ mm \in Months /\ dd \in Numbers /\ yy \in Numbers
                    /\ tm \in Times /\ tz \in Zones
                 THEN [ok |-> TRUE, yy |-> yy, mm |-> mm, dd |-> dd,
                       tm |-> tm, tz |-> tz]
                 ELSE [ok |-> FALSE]

\* except Exception: return ""
ParseTwitterDate_EmptyOnFailure(date_string) ==
    IF date_string = <<>> THEN <<>>
    ELSE LET parsed_date == ParsedateToDatetime(date_string) IN
         IF parsed_date.ok THEN IsoFormat(parsed_date) ELSE <<>>

ParseTwitterDate(date_string) ==
    IF date_string = <<>> THEN <<>>
    ELSE LET parsed_date == ParsedateToDatetime(date_string) IN
         IF parsed_date.ok THEN IsoFormat(parsed_date)
         ELSE date_string                   \* except: return date_string

\* Date texts: the feed's legacy format, RFC 2822, ISO-8601, empty, and
\* texts that are no date.
DateValues ==
    { <<<<"Mon">>, <<"Jul">>, <<"28">>, <<"17:12:07">>, <<"+0000">>,
        <<"2025">>>>,
      <<<<"Mon">>, <<"Jul">>, <<"28">>, <<"17:12:07">>, <<"-0500">>,
        <<"2025">>>>,
      <<<<"Mon", ",">>, <<"28">>, <<"Aug">>, <<"2025">>, <<"17:12:07">>,
        <<"-0500">>>>,
      IsoFormat([yy |-> "2025", mm |-> "Jul", dd |-> "28",
                 tm |-> "17:12:07", tz |-> "+0000"]),
      <<>>,
      <<<<"soon">>>>,
      <<<<"fire">>, <<"at">>, <<"28">>, <<"Main">>, <<"St">>>> }

DateItems ==
    {[url |-> PostId(1)]} \cup [url : {PostId(1)}, published_date : DateValues]

\* if True
DateChanged_Always(fixed_date, original_date) == TRUE

\* if fixed_date != original_date
DateChanged(fixed_date, original_date) == fixed_date # original_date

\* item = {'published_date': fixed_date}
FixedItem_Rebuilt(item) ==
    [published_date |-> ParseTwitterDate(item.published_date)]

\* item['published_date'] = fixed_date
FixedItem(item) == [item EXCEPT !.published_date = ParseTwitterDate(@)]

\* The item needs fixing: it has a published_date that is not empty and
\* that parse_twitter_date changes.
NeedsFix(item) ==
    /\ "published_date" \in DOMAIN item
    /\ item.published_date # <<>>
    /\ DateChanged(ParseTwitterDate(item.published_date), item.published_date)

\* fix_existing_json_dates(json_file_path): the file afterwards,
\* fixed_count, whether the file was rewritten, whether an error was caught.
FixExistingJsonDates(file, fault) ==
    IF file.st # "ok" \/ fault = "read"
    THEN [file |-> file, fixed_count |-> 0, wrote |-> FALSE, caught |-> TRUE]
    ELSE LET fixed == {k \in 1..Len(file.data) : NeedsFix(file.data[k])}
             data  == [k \in 1..Len(file.data) |->
                         IF k \in fixed
                         THEN FixedItem(file.data[k])
                         ELSE file.data[k]]
             fixed_count == Cardinality(fixed)
         IN  IF fixed_count = 0 \/ fault = "open"
             THEN [file |-> file, fixed_count |-> fixed_count,
                   wrote |-> FALSE, caught |-> fixed_count > 0]
             ELSE IF fault = "dump"
             THEN [file |-> Partial, fixed_count |-> fixed_count,
                   wrote |-> FALSE, caught |-> TRUE]
             ELSE [file |-> Holding(data), fixed_count |-> fixed_count,
                   wrote |-> TRUE, caught |-> FALSE]

InitDates ==
    /\ IdleRun
    /\ env \in [shape : {"records"}]
    /\ pc = "fix_existing_json_dates"
    /\ ledger = Absent
    /\ handed = <<>>
    /\ writes = 0
    /\ thr = NoThreads
    /\ IdleSearch
    /\ dates \in {Holding(d) :
                     d \in UNION {[1..n -> DateItems] : n \in 0..MaxTweets}}
    /\ fixes = <<>>

RunFixDates ==
    /\ pc = "fix_existing_json_dates"
    /\ Len(fixes) < MaxCalls
    /\ \E fault \in Faults :
          LET r == FixExistingJsonDates(dates, fault) IN
          /\ dates' = r.file
          /\ writes' = writes + (IF r.wrote THEN 1 ELSE 0)
          /\ fixes' = Append(fixes, [fixed_count |-> r.fixed_count,
                                     wrote |-> r.wrote, caught |-> r.caught,
                                     before |-> dates, after |-> r.file])
    /\ UNCHANGED <<env, tweets, pc, i, verified_count, ledger, excel, calls,
                   info, fanout, handed, thr, search_vars>>

NextDates == RunFixDates

SpecDates == InitDates /\ [][NextDates]_vars

(***************************************************************************)
(* utils.send_to_api(json_data_path, verified_count) called on its own, up *)
(* to MaxCalls times (handed keeps the last call), on a ledger file that   *)
(* is absent, unparsable, or holds records: as the engine writes them (an  *)
(* integer score, the text of an answer without a score, the empty text of *)
(* a failed scoring call) or without a fire_related_score key, each with a *)
(* published date.                                                         *)
(***************************************************************************)
UploadDates ==
    {d \in DateValues : d = <<>> \/ Len(d) = 1 \/ Len(d[1]) = 1}

UploadRecords(k) ==
    LET dated == {[content |-> <<"f", "i", "r", "e">>, url |-> PostId(k),
                   verification_result |-> <<"Y", "e", "s">>,
                   published_date |-> d] : d \in UploadDates}
    IN  dated \cup
        {[fire_related_score |-> sc] @@ r :
             sc \in {GetFireRelatedScore(resp) : resp \in ScoreResponses},
             r \in dated}

LedgerFiles ==
    {Absent, Partial} \cup
    {Holding(d) :
        d \in UNION {{r \in [1..n -> UNION {UploadRecords(k) : k \in 1..n}] :
                          \A k \in 1..n : r[k].url = PostId(k)} :
                     n \in 0..MaxTweets}}

InitUpload ==
    /\ IdleRun
    /\ env \in [shape : {"ledger"}]
    /\ pc = "send_to_api"
    /\ ledger \in LedgerFiles
    /\ handed = <<>>
    /\ writes = 0
    /\ thr = NoThreads
    /\ IdleSearch
    /\ IdleDates

CallSendToApi ==
    /\ pc = "send_to_api"
    /\ Len(calls) < MaxCalls
    /\ \E http \in HttpOutcomes :
          LET r == SendToApi(<<"json_path", Len(ledger.data)>>,
                             [excel_path |-> excel, json_path |-> ledger],
                             http)
          IN  handed' = <<[http |-> http, posts |-> r.posts, ok |-> r.ok,
                           raised |-> r.typeError]>>
    /\ calls' = Append(calls, <<"send_to_api", Len(calls) + 1>>)
    /\ UNCHANGED <<env, tweets, pc, i, verified_count, ledger, excel, info,
                   fanout, writes, thr, search_vars, date_vars>>

NextUpload == CallSendToApi

SpecUpload == InitUpload /\ [][NextUpload]_vars

(***************************************************************************)
(* clean_tweets.is_within_hours called on its own.  An instant is a number *)
(* of seconds on the UTC time line; tweet_date is None or an instant, and  *)
(* the clock is read inside the call.  The clock values and the instants   *)
(* put a post before, exactly on and after the edge of each window.        *)
(***************************************************************************)
SecondsPerHour == 3600

MaxHours == 2

NoInstant == [isNone |-> TRUE, t |-> 0]

Instant(t) == [isNone |-> FALSE, t |-> t]

ClockValues == {2 * SecondsPerHour, 2 * SecondsPerHour + 1, 3 * SecondsPerHour}

TweetDates ==
    {NoInstant} \cup
    { Instant(t) : t \in {0, 1, SecondsPerHour - 1, SecondsPerHour,
                          SecondsPerHour + 1, 2 * SecondsPerHour,
                          2 * SecondsPerHour + 1, 4 * SecondsPerHour} }

\* timedelta.total_seconds() of now - tweet_date
TotalSeconds(now, tweet_date) == now - tweet_date.t

WithinWindow_Strict(time_diff, hours) == time_diff < hours * SecondsPerHour

\* line 23: the comparison with the window, its edge included
WithinWindow(time_diff, hours) == time_diff <= hours * SecondsPerHour

IsWithinHours(tweet_date, hours, now) ==
    IF tweet_date.isNone
    THEN FALSE
    ELSE WithinWindow(TotalSeconds(now, tweet_date), hours)

InitWindow ==
    /\ IdleRun
    /\ env \in [shape : {"window"}]
    /\ pc = "is_within_hours"
    /\ ledger = Absent
    /\ handed = <<>>
    /\ writes = 0
    /\ thr = NoThreads
    /\ IdleSearch
    /\ IdleDates

CallIsWithinHours ==
    /\ pc = "is_within_hours"
    /\ Len(calls) < MaxCalls
    /\ \E tweet_date \in TweetDates, hours \in 0..MaxHours,
          now \in ClockValues :
          handed' = <<[tweet_date |-> tweet_date, hours |-> hours,
                       now |-> now,
                       result |-> IsWithinHours(tweet_date, hours, now)]>>
    /\ calls' = Append(calls, <<"is_within_hours", Len(calls) + 1>>)
    /\ UNCHANGED <<env, tweets, pc, i, verified_count, ledger, excel, info,
                   fanout, writes, thr, search_vars, date_vars>>

NextWindow == CallIsWithinHours

SpecWindow == InitWindow /\ [][NextWindow]_vars

(***************************************************************************)
(* run_fire_detection.main: the environment check, the search script, the  *)
(* look for a candidate file, the verification script.  A script is a      *)
(* child process that ends with a return code; calls keeps the scripts     *)
(* that were run with their return codes.  output_file stands for the      *)
(* files fire_tweets_72h_*.json of the directory: some may be there from   *)
(* earlier runs, and the search writes one when a query returned posts.    *)
(***************************************************************************)
RequiredVars ==
    {"TWITTER_API_KEY", "OPENAI_API_KEY", "EMAIL_ADDRESS", "EMAIL_PASSWORD"}

\* A variable of the environment is not set, set to the empty text, or set.
EnvValues == {"unset", "empty", "set"}

\* if not os.getenv(var): missing_vars.append(var)
MissingVars(e) == {var \in RequiredVars : e[var] # "set"}

\* return True whatever the script's return code
RunSucceeded_Always(returncode) == TRUE

\* subprocess.run(..., check=True) raises CalledProcessError, which is
\* answered with False, when the return code is not zero.
RunSucceeded(returncode) == returncode = 0

ReturnCodes == {0, 1}

InitPipeline ==
    /\ IdleRun
    /\ env \in [RequiredVars \cup {"shape"} ->
                    EnvValues \cup {"pipeline"}]
    /\ env.shape = "pipeline"
    /\ \A var \in RequiredVars : env[var] \in EnvValues
    /\ pc = "check_environment"
    /\ ledger = Absent
    /\ handed = <<>>
    /\ writes = 0
    /\ thr = NoThreads
    /\ response = NoResponse
    /\ events = <<>>
    /\ fetched = <<>>
    /\ seen_ids = {}
    /\ unique_tweets = <<>>
    /\ output_file \in {Absent, Holding(<<>>)}
    /\ IdleDates

\* Lines 89-90.
CheckEnvironment ==
    /\ pc = "check_environment"
    /\ pc' = IF MissingVars(env) # {} THEN "exit" ELSE "run_tweet_search"
    /\ UNCHANGED <<env, tweets, i, verified_count, ledger, excel, calls,
                   info, fanout, handed, writes, thr, search_vars, date_vars>>

\* Lines 93-95.  The search leaves the directory's candidate files as they
\* are or adds its own.
RunTweetSearch ==
    /\ pc = "run_tweet_search"
    /\ \E returncode \in ReturnCodes, saved \in BOOLEAN :
          /\ calls' = Append(calls, <<"tweet_fire_search.py", returncode>>)
          /\ output_file' = IF saved
                            THEN Holding(<<[id |-> PostId(1),
                                            text |-> <<"a">>]>>)
                            ELSE output_file
          /\ pc' = IF RunSucceeded(returncode) THEN "glob" ELSE "exit"
    /\ UNCHANGED <<env, tweets, i, verified_count, ledger, excel, info,
                   fanout, handed, writes, thr, response, events, fetched,
                   seen_ids, unique_tweets, date_vars>>

\* Lines 98-101.
GlobCandidates ==
    /\ pc = "glob"
    /\ pc' = IF output_file.st = "absent" THEN "exit" ELSE "run_verification"
    /\ UNCHANGED <<env, tweets, i, verified_count, ledger, excel, calls,
                   info, fanout, handed, writes, thr, search_vars, date_vars>>

\* Lines 104-112.
RunVerification ==
    /\ pc = "run_verification"
    /\ \E returncode \in ReturnCodes :
          /\ calls' = Append(calls, <<"verify_tweets.py", returncode>>)
          /\ pc' = IF RunSucceeded(returncode) THEN "success" ELSE "exit"
    /\ UNCHANGED <<env, tweets, i, verified_count, ledger, excel, info,
                   fanout, handed, writes, thr, search_vars, date_vars>>

NextPipeline ==
    \/ CheckEnvironment
    \/ RunTweetSearch
    \/ GlobCandidates
    \/ RunVerification

SpecPipeline == InitPipeline /\ [][NextPipeline]_vars

(***************************************************************************)
(* Vocabulary of the properties of a run.                                  *)
(***************************************************************************)
Posts == 1..Len(tweets)

Processed == {k \in Posts : info[k].st # "Pending"}

\* The records a sink file holds from post k (a record carries its post's
\* status URL, which is unique in the input).
RecordsIn(file, k) ==
    {j \in 1..Len(file.data) : file.data[j].url = tweets[k].url}

Called(what, k) == <<what, k>> \in Range(calls)

\* Text that is empty or made of whitespace only.
BlankText(text) ==
    text # None /\ \A j \in 1..Len(text) : text[j] \in Whitespace

\* The verdict call was made for post k and its answer starts with "yes",
\* in any letter case.
PositivePost(k) ==
    LET a == info[k].answer IN
    /\ a # None
    /\ Len(a) >= 3
    /\ LowerChar(a[1]) = "y"
    /\ LowerChar(a[2]) = "e"
    /\ LowerChar(a[3]) = "s"

NoFileFault == \A k \in Posts : info[k].errs \cap {"ledger", "excel"} = {}

\* The run was not ended by an uncaught error of the loop: the only uncaught
\* error left is main's, on an input file that cannot be read.
NotAbortedByPost == pc = "crashed" => env.input = "unreadable"

RunOver == pc \in {"fanout", "done"}

(***************************************************************************)
(* C1: after a complete run in which no file operation failed, the ledger  *)
(* holds exactly one record for every post with non-empty text and a       *)
(* Positive verdict, and none for any other post.                          *)
(***************************************************************************)
C1_OneRecordPerPositivePost ==
    (pc = "done" /\ NoFileFault) =>
        \A k \in Posts :
            Cardinality(RecordsIn(ledger, k)) =
                (IF PositivePost(k) THEN 1 ELSE 0)

(***************************************************************************)
(* C2: the ledger append is idempotent per post.  After any calls of       *)
(* update_live_json none of which failed, the ledger holds exactly one     *)
(* entry for each post whose record was handed in, and a call rewrote the  *)
(* file exactly when its post's record had not been handed in before.      *)
(***************************************************************************)
HandedUrls == {handed[j].entry.url : j \in 1..Len(handed)}

C2_AppendIdempotentPerPost ==
    (pc = "update_live_json" /\ \A j \in 1..Len(handed) : ~handed[j].caught)
    =>  /\ \A u \in HandedUrls :
              Cardinality({j \in 1..Len(ledger.data) :
                             ledger.data[j].url = u}) = 1
        /\ \A j \in 1..Len(handed) :
              handed[j].wrote =
                  (\A h \in 1..(j - 1) :
                       handed[h].entry.url # handed[j].entry.url)
        /\ writes = Cardinality(HandedUrls)

(***************************************************************************)
(* C3: two threads in update_live_json on one path with the records of two *)
(* posts never have both read the file with neither having written it     *)
(* yet, and once both calls have returned without a failure both records   *)
(* are in the ledger.                                                      *)
(***************************************************************************)
C3_WritersNeverInterleave ==
    pc = "threads" =>
        /\ \A t, u \in Threads :
              t # u => ~(thr[t].pc = "read" /\ thr[u].pc = "read")
        /\ (\A t \in Threads : thr[t].pc = "returned" /\ ~thr[t].caught)
              => \A t \in Threads :
                     \E j \in 1..Len(ledger.data) :
                         ledger.data[j].url = thr[t].entry.url

(***************************************************************************)
(* C4, as claimed: an error raised while a post is processed never ends    *)
(* the run, the post it struck is Skipped, and every post is processed.    *)
(***************************************************************************)
C4_AnyErrorSkipsThePost ==
    /\ NotAbortedByPost
    /\ \A k \in Posts : info[k].errs # {} => info[k].st = "Skipped"
    /\ RunOver => Processed = Posts

(***************************************************************************)
(* C4, amended: an error raised while a post is processed never ends the   *)
(* run and every post is processed.  The post is Skipped when the verdict  *)
(* call failed or when the error reached the loop's handler; a failure of  *)
(* the scoring call or of a sink append is caught inside that call and the *)
(* post is still counted.                                                  *)
(***************************************************************************)
C4_ErrorNeverEndsTheRun ==
    /\ NotAbortedByPost
    /\ \A k \in Posts :
          /\ info[k].errs \cap {"verify", "engine"} # {}
                => info[k].st = "Skipped"
          /\ info[k].errs \cap {"score", "ledger", "excel"} # {}
                => info[k].st = "Persisted"
    /\ RunOver => Processed = Posts
    /\ pc = "loop" => Processed = 1..(i - 1)

C4_Witness ==
    /\ pc = "done"
    /\ Len(tweets) = 2
    /\ info[1].errs = {"engine"}
    /\ info[2].errs = {"score", "ledger", "excel"}

C6_FanoutStepsIndependent ==
    (pc = "done" /\ fanout.invoked = 1) =>
        /\ fanout.api_called = 1
        /\ fanout.notifier_failed \/ Len(fanout.emails) = 1

(***************************************************************************)
(* C7: when a run in which nothing failed persisted a record and the email *)
(* has been sent, the uploader runs on the ledger file and issues one POST *)
(* with one item per record of the ledger.                                 *)
(***************************************************************************)
C7_FanoutReachesUploader ==
    ( /\ pc = "done"
      /\ verified_count > 0
      /\ \A k \in Posts : info[k].errs = {}
      /\ \A j \in 1..Len(ledger.data) : ledger.data[j].fire_related_score.isInt
      /\ Len(fanout.emails) = 1
      /\ ~fanout.notifier_failed )
    =>  /\ fanout.api_entered = 1
        /\ Len(fanout.posts) = 1
        /\ Len(fanout.posts[1]) = Len(ledger.data)

(***************************************************************************)
(* C8: a post with empty or whitespace-only text is Skipped with no call   *)
(* to the classifier, leaves no record in either sink and does not count;  *)
(* in an input with a blank post and exactly one Positive post only the    *)
(* Positive post yields a record and the final count is 1.                 *)
(***************************************************************************)
C8_BlankPostSkipped ==
    /\ verified_count = Cardinality({k \in Posts : info[k].st = "Persisted"})
    /\ \A k \in Processed :
          BlankText(tweets[k].text) =>
              /\ info[k].st = "Skipped"
              /\ ~Called("verify", k) /\ ~Called("score", k)
              /\ RecordsIn(ledger, k) = {} /\ RecordsIn(excel, k) = {}
    /\ \A b, k \in Posts :
          ( /\ pc = "done"
            /\ BlankText(tweets[b].text)
            /\ {p \in Posts : PositivePost(p)} = {k} )
          => /\ verified_count = 1
             /\ NoFileFault =>
                   /\ Len(ledger.data) = 1 /\ RecordsIn(ledger, k) = {1}
                   /\ Len(excel.data) = 1 /\ RecordsIn(excel, k) = {1}

C8_Witness ==
    /\ pc = "done"
    /\ Len(tweets) = 2
    /\ tweets[1].text = <<" ", "\n">>
    /\ PositivePost(2)
    /\ RecordsIn(ledger, 2) = {1}

(***************************************************************************)
(* C9: a post whose verdict is not Positive (the answer does not start     *)
(* with "yes", or the verdict call failed) is never scored, never written  *)
(* to the ledger or the spreadsheet and never counted.                     *)
(***************************************************************************)
C9_NotPositiveNeverPersisted ==
    /\ verified_count = Cardinality({k \in Processed : PositivePost(k)})
    /\ \A k \in Processed :
          /\ "verify" \in info[k].errs => ~PositivePost(k)
          /\ ~PositivePost(k) =>
                /\ info[k].st = "Skipped"
                /\ ~Called("score", k)
                /\ ~Called("ledger", k) /\ ~Called("excel", k)
                /\ RecordsIn(ledger, k) = {} /\ RecordsIn(excel, k) = {}

C9_Witness ==
    /\ pc = "done"
    /\ Len(tweets) = 2
    /\ info[1].answer = <<"n", "o", " ", "y", "e", "s">>
    /\ "verify" \in info[2].errs

(***************************************************************************)
(* C10: when every verdict call of the run fails, the run is not ended by  *)
(* an error, each failure becomes the verdict "no", nothing is written to  *)
(* either sink, the count stays 0 and there is no fanout.                  *)
(***************************************************************************)
EveryVerdictCallFailed ==
    \A k \in Posts : Called("verify", k) => "verify" \in info[k].errs

C10_FailingClassifierPersistsNothing ==
    EveryVerdictCallFailed =>
        /\ NotAbortedByPost
        /\ \A k \in Posts :
              Called("verify", k) =>
                  info[k].answer = <<"n", "o">> /\ info[k].st = "Skipped"
        /\ verified_count = 0
        /\ ledger = Absent /\ excel = Absent
        /\ fanout.invoked = 0 /\ pc # "fanout"
        /\ RunOver => pc = "done" /\ Processed = Posts

C10_Witness ==
    /\ pc = "done"
    /\ Len(tweets) = 2
    /\ \A k \in Posts : Called("verify", k) /\ "verify" \in info[k].errs

(***************************************************************************)
(* C11: the outcome of the scoring call never blocks a Positive verdict.   *)
(* Every processed post with a Positive verdict had the scoring call made, *)
(* was handed to both sink appends and was counted, whether the scoring    *)
(* call gave an integer, an answer without a score, or failed; when no     *)
(* sink operation of the run failed, the spreadsheet holds the post's row, *)
(* and the ledger holds the record of the run's first Positive post, each  *)
(* with the score as get_fire_related_score returned it.                   *)
(***************************************************************************)
FirstPositive(k) == PositivePost(k) /\ \A j \in 1..(k - 1) : ~PositivePost(j)

C12_SinkFilesAlwaysValid ==
    /\ ledger.st \in {"absent", "ok"}
    /\ excel.st \in {"absent", "ok"}
    /\ ledger.st = "ok" =>
          \A j \in 1..Len(ledger.data) :
              \E k \in Processed : ledger.data[j].url = tweets[k].url

(***************************************************************************)
(* C13: when update_live_json is called on a ledger file that is absent or *)
(* that exists and cannot be parsed as JSON, and nothing else fails in the *)
(* call, the file afterwards holds a valid array containing the new        *)
(* record.                                                                 *)
(***************************************************************************)
C13_UnparsableLedgerReadAsEmpty ==
    Len(handed) > 0 =>
        LET last == handed[Len(handed)] IN
        (last.before \in {"absent", "partial"} /\ last.fault = "none") =>
            /\ ledger.st = "ok"
            /\ last.entry \in Range(ledger.data)

(***************************************************************************)
(* C14: at the end of a run the engine's verified_count equals the number  *)
(* of records the run added to the ledger (the ledger path is new to each  *)
(* run, so: the number of records the ledger file holds).                  *)
(***************************************************************************)
LedgerRecords == IF ledger.st = "ok" THEN Len(ledger.data) ELSE 0

C14_CountIsRecordsAdded ==
    RunOver => verified_count = LedgerRecords

(***************************************************************************)
(* C15: after a sequence of successful update_excel_file calls on one path *)
(* the spreadsheet holds a header row and exactly one data row per record  *)
(* handed to it, in the order of the appends; each successful call adds    *)
(* exactly one row, the record it was handed, and leaves the rows that     *)
(* were there unchanged.                                                   *)
(***************************************************************************)
AllAppendsSucceeded == \A j \in 1..Len(handed) : handed[j].wrote

C15_OneRowPerRecordInOrder ==
    /\ (Len(handed) > 0 /\ AllAppendsSucceeded) =>
          /\ excel.st = "ok"
          /\ excel.header = DOMAIN handed[1].entry
          /\ excel.data = [j \in 1..Len(handed) |-> handed[j].entry]
    /\ (Len(handed) > 0 /\ handed[Len(handed)].wrote) =>
          LET last == handed[Len(handed)] IN
          /\ Len(excel.data) = Len(last.was.data) + 1
          /\ SubSeq(excel.data, 1, Len(last.was.data)) = last.was.data

(***************************************************************************)
(* C16: when deduplicate_tweets(P) returns, its result is no longer than   *)
(* P, holds every id at most once, holds every non-empty id that occurs in *)
(* P, and is made of the first post of P for each such id, in the order of *)
(* first appearance.                                                       *)
(***************************************************************************)
IdAt(P, j) == Get(P[j], "id")

NonEmptyId(v) == v # None /\ v # <<>>

FirstAppearances ==
    {j \in 1..Len(tweets) :
        /\ NonEmptyId(IdAt(tweets, j))
        /\ \A h \in 1..(j - 1) : IdAt(tweets, h) # IdAt(tweets, j)}

C16_DedupeKeepsFirstOfEachId ==
    pc = "deduplicated" =>
        /\ Len(unique_tweets) <= Len(tweets)
        /\ \A m, n \in 1..Len(unique_tweets) :
              IdAt(unique_tweets, m) = IdAt(unique_tweets, n) => m = n
        /\ \A j \in 1..Len(tweets) :
              NonEmptyId(IdAt(tweets, j)) =>
                  \E m \in 1..Len(unique_tweets) :
                      IdAt(unique_tweets, m) = IdAt(tweets, j)
        /\ Len(unique_tweets) = Cardinality(FirstAppearances)
        /\ \A j \in FirstAppearances :
              unique_tweets[Cardinality({h \in FirstAppearances : h <= j})]
                  = tweets[j]

C16_Witness ==
    /\ pc = "deduplicated"
    /\ Len(tweets) = 2
    /\ IdAt(tweets, 1) = PostId(1)
    /\ IdAt(tweets, 2) = PostId(1)
    /\ tweets[1].text # tweets[2].text
    /\ unique_tweets = <<tweets[1]>>

(***************************************************************************)
(* C17: deduplicate_tweets never returns a post whose id is missing, null  *)
(* or empty, wherever the post stands in its input.                        *)
(***************************************************************************)
C17_DedupeDropsPostsWithoutId ==
    \A m \in 1..Len(unique_tweets) : NonEmptyId(IdAt(unique_tweets, m))

C17_Witness ==
    /\ pc = "deduplicated"
    /\ Len(tweets) = 2
    /\ "id" \notin DOMAIN tweets[1]
    /\ IdAt(tweets, 2) = <<>>
    /\ unique_tweets = <<>>

(***************************************************************************)
(* C18: in every fetch call the first request is followed by the fixed     *)
(* back-off sleep and then one retry exactly when its response is a 429:   *)
(* a call makes at most two requests, the sleep stands between them, a     *)
(* response of any other status (or an exception) is followed by no sleep  *)
(* and no retry, and a call whose retry is answered 429 returns no posts.  *)
(***************************************************************************)
EventsOf(n) == LET OfCall(e) == e.call = n IN SelectSeq(events, OfCall)

C18_OneRetryAfterBackoff ==
    /\ \A n \in 1..(Len(fetched) + 1) :
          LET E == EventsOf(n) IN
          /\ Len(E) <= 3
          /\ Len(E) >= 1 => E[1].what = "get"
          /\ Len(E) >= 2 =>
                /\ E[1].status = "429"
                /\ E[2].what = "sleep" /\ E[2].secs = BackoffSeconds
          /\ Len(E) = 3 => E[3].what = "get"
    /\ \A n \in 1..Len(fetched) :
          LET E == EventsOf(n) IN
          /\ Len(E) \in {1, 3}
          /\ E[1].status = "429" <=> Len(E) = 3
          /\ fetched[n] # <<>> => E[Len(E)].status = "200"
          /\ (Len(E) = 3 /\ E[3].status = "429") => fetched[n] = <<>>

C18_Witness ==
    /\ Len(fetched) = 1
    /\ Len(events) = 3
    /\ events[1].status = "429"
    /\ events[2].what = "sleep"
    /\ events[3].what = "get" /\ events[3].status = "429"
    /\ fetched[1] = <<>>

(***************************************************************************)
(* C19: when the candidate input file exists and cannot be read or parsed, *)
(* no classifier call is made, no sink file is written, no fanout happens, *)
(* and main does not end in an uncaught error.                             *)
(***************************************************************************)
C19_UnreadableInputAbortsCleanly ==
    env.input = "unreadable" =>
        /\ calls = <<>>
        /\ ledger = Absent /\ excel = Absent
        /\ fanout.invoked = 0 /\ pc # "fanout"
        /\ pc # "crashed"

(***************************************************************************)
(* C20: fix_existing_json_dates is idempotent.  A run on the file that a   *)
(* completed earlier run left (one that caught no error) fixes no date,    *)
(* leaves every record as it was and does not write the file, whatever mix *)
(* of legacy, RFC 2822, ISO-8601, empty, missing and unparsable dates the  *)
(* file started with.                                                      *)
(***************************************************************************)
C20_FixDatesIdempotent ==
    \A n \in 2..Len(fixes) :
        ~fixes[n - 1].caught =>
            /\ fixes[n].fixed_count = 0
            /\ ~fixes[n].wrote
            /\ fixes[n].after = fixes[n].before
            /\ fixes[n].before = fixes[n - 1].after

C20_Witness ==
    /\ Len(fixes) >= 2
    /\ fixes[1].wrote /\ fixes[1].fixed_count = 2
    /\ ~fixes[2].wrote /\ ~fixes[2].caught
    /\ dates.st = "ok"
    /\ Len(dates.data) = 2
    /\ dates.data[1].published_date # dates.data[2].published_date
    /\ \A k \in 1..2 : Len(dates.data[k].published_date) = 1

(***************************************************************************)
(* C21: fix_existing_json_dates changes nothing but published_date.  After *)
(* a run whose rewrite was not cut short the file holds the same number of *)
(* records in the same order, each with the same fields and with every     *)
(* field other than published_date unchanged; a run that cannot read or    *)
(* parse the file, or that rewrites nothing, leaves it as it was.          *)
(***************************************************************************)
OtherFields(item) == [f \in DOMAIN item \ {"published_date"} |-> item[f]]

NoScoreSupplied(rec) ==
    \/ "fire_related_score" \notin DOMAIN rec
    \/ rec.fire_related_score = StrScore(<<>>)

ScoresAreNumbersOrMissing ==
    \A k \in 1..Len(ledger.data) :
        NoScoreSupplied(ledger.data[k]) \/ ledger.data[k].fire_related_score.isInt

C22_MissingScoreUploadsAsDefault ==
    \A n \in 1..Len(handed) :
        (ledger.st = "ok" /\ ScoresAreNumbersOrMissing
           /\ handed[n].http # "error") =>
            /\ Len(handed[n].posts) = 1
            /\ Len(handed[n].posts[1]) = Len(ledger.data)
            /\ \A k \in 1..Len(ledger.data) :
                  LET rec  == ledger.data[k]
                      sent == handed[n].posts[1][k].fire_related_score
                  IN  IF NoScoreSupplied(rec) THEN sent = DefaultScoreTenths
                      ELSE sent = 10 * rec.fire_related_score.n

(***************************************************************************)
(* C23 as stated: a call of send_to_api makes at most one POST, never      *)
(* raises, and returns success exactly when a response with status 200     *)
(* came back.                                                              *)
(***************************************************************************)
Status200(http) == http \in {"200", "200_nojson"}

C23_SuccessIffStatus200 ==
    \A n \in 1..Len(handed) :
        /\ Len(handed[n].posts) <= 1
        /\ ~handed[n].raised
        /\ handed[n].ok <=>
              (Len(handed[n].posts) = 1 /\ Status200(handed[n].http))

(***************************************************************************)
(* C23, amended: a call of send_to_api makes at most one POST and never    *)
(* raises; it returns success exactly when the response has status 200 and *)
(* a body that parses as JSON, and failure for any other status, for a 200 *)
(* whose body is not JSON, for a missing or unparsable ledger file, for a  *)
(* record that cannot be mapped and for a request that raises, in which    *)
(* last three cases no POST is counted.                                    *)
(***************************************************************************)
EveryScoreIsANumber ==
    \A k \in 1..Len(ledger.data) :
        \/ "fire_related_score" \notin DOMAIN ledger.data[k]
        \/ ledger.data[k].fire_related_score.isInt

C23_SuccessIffStatus200AndJson ==
    \A n \in 1..Len(handed) :
        /\ Len(handed[n].posts) <= 1
        /\ ~handed[n].raised
        /\ handed[n].ok <=>
              (Len(handed[n].posts) = 1 /\ handed[n].http = "200")
        /\ ledger.st # "ok" => Len(handed[n].posts) = 0
        /\ handed[n].http = "error" => Len(handed[n].posts) = 0
        /\ (ledger.st = "ok" /\ EveryScoreIsANumber
              /\ handed[n].http # "error") => Len(handed[n].posts) = 1
        /\ ~EveryScoreIsANumber => Len(handed[n].posts) = 0

C23_Witness ==
    /\ Len(calls) >= 2
    /\ Len(handed) = 1
    /\ handed[1].http = "200_nojson"
    /\ Len(handed[1].posts) = 1
    /\ Len(handed[1].posts[1]) = 2
    /\ ~handed[1].ok

(***************************************************************************)
(* C24: parse_twitter_date of verify_tweets is a fixed point on its own    *)
(* output.  For every date text t met by fix_existing_json_dates,          *)
(* normalize(normalize(t)) = normalize(t); a text already in ISO-8601 is   *)
(* returned as it is; and what a run stored for a date is normalize of     *)
(* what was there.                                                         *)
(***************************************************************************)
IsIsoText(t) == Len(t) = 1 /\ Len(t[1]) = 8 /\ t[1][6] = "T"

DatesMet ==
    UNION {{fixes[n].before.data[k].published_date :
               k \in {j \in 1..Len(fixes[n].before.data) :
                         "published_date" \in DOMAIN fixes[n].before.data[j]}}
           : n \in 1..Len(fixes)}

C24_NormalizeIsAFixedPoint ==
    /\ \A t \in DatesMet :
          /\ ParseTwitterDate(ParseTwitterDate(t)) = ParseTwitterDate(t)
          /\ IsIsoText(t) => ParseTwitterDate(t) = t
          /\ Len(t) = 6 => IsIsoText(ParseTwitterDate(t))
    /\ \A n \in 1..Len(fixes) :
          fixes[n].wrote =>
              \A k \in 1..Len(fixes[n].before.data) :
                  "published_date" \in DOMAIN fixes[n].before.data[k] =>
                      fixes[n].after.data[k].published_date =
                          ParseTwitterDate(
                              fixes[n].before.data[k].published_date)

C24_Witness ==
    /\ Len(fixes) >= 2
    /\ fixes[1].wrote
    /\ \E t \in DatesMet : Len(t) = 6 /\ Len(t[1]) = 1
    /\ \E t \in DatesMet : IsIsoText(t)
    /\ ~fixes[2].wrote /\ ~fixes[2].caught

(***************************************************************************)
(* C25: whatever numeric UTC offset a legacy-format timestamp carries, the *)
(* date that fix_existing_json_dates stores for it is expressed in UTC:    *)
(* its ISO-8601 text ends in the offset +00:00.                            *)
(***************************************************************************)
IsLegacyText(t) == Len(t) = 6 /\ Len(t[1]) = 1

C25_LegacyDatesStoredInUtc ==
    \A n \in 1..Len(fixes) :
        fixes[n].wrote =>
            \A k \in 1..Len(fixes[n].before.data) :
                ( /\ "published_date" \in DOMAIN fixes[n].before.data[k]
                  /\ IsLegacyText(fixes[n].before.data[k].published_date) )
                => LET stored == fixes[n].after.data[k].published_date IN
                   IsIsoText(stored) /\ stored[1][8] = "+00:00"

(***************************************************************************)
(* C26: a date text that is neither legacy-format nor ISO-8601 is never    *)
(* replaced by another value: the item the uploader builds from a record   *)
(* with such a published_date, through parse_twitter_date of utils,        *)
(* carries the original text.                                              *)
(***************************************************************************)
C26_UnparsableDateKeepsOriginal ==
    \A n \in 1..Len(handed) :
        Len(handed[n].posts) = 1 =>
            \A k \in 1..Len(ledger.data) :
                LET original == ledger.data[k].published_date IN
                ( /\ original # <<>>
                  /\ ~IsLegacyText(original)
                  /\ ~IsIsoText(original) )
                => handed[n].posts[1][k].published_date = original

(***************************************************************************)
(* C27: is_within_hours(instant, hours) answers true exactly when the      *)
(* instant lies no more than hours * 3600 seconds before the clock's now,  *)
(* an instant exactly on the edge included, and answers false when the     *)
(* instant is None.                                                        *)
(***************************************************************************)
C27_WindowEdgeIsInside ==
    \A n \in 1..Len(handed) :
        LET c == handed[n] IN
        "result" \in DOMAIN c =>
            IF c.tweet_date.isNone
            THEN c.result = FALSE
            ELSE c.result = (c.tweet_date.t + c.hours * 3600 >= c.now)

\* An instant exactly hours * 3600 seconds old was found inside the window.
C27_Witness ==
    \E n \in 1..Len(handed) :
        LET c == handed[n] IN
        /\ "result" \in DOMAIN c
        /\ ~c.tweet_date.isNone
        /\ c.hours > 0
        /\ c.now - c.tweet_date.t = c.hours * 3600
        /\ c.result

(***************************************************************************)
(* C28: every record written to the ledger or to the spreadsheet has a     *)
(* fire_related_score that is an integer from 0 to 10 or the one marker of *)
(* an unavailable score (the empty text); an answer without a standalone   *)
(* 0-10 token is stored as the marker, never as the answer's text.         *)
(***************************************************************************)
ScoreOrMarker(score) ==
    IF score.isInt THEN score.n \in 0..10 ELSE score = StrScore(<<>>)

C28_ScoreIsIntegerOrMarker ==
    /\ \A j \in 1..Len(ledger.data) :
           ScoreOrMarker(ledger.data[j].fire_related_score)
    /\ \A j \in 1..Len(excel.data) :
           ScoreOrMarker(excel.data[j].fire_related_score)

(***************************************************************************)
(* C29: the fan-out never alters the persisted output: whatever the        *)
(* outcome of the notifier and of the upload, the ledger file and the      *)
(* spreadsheet file hold after send_email_results what they held before.   *)
(***************************************************************************)
C29_FanoutLeavesTheFilesAlone ==
    [][pc = "fanout" => (ledger' = ledger /\ excel' = excel)]_vars

\* A fan-out that failed has run on a ledger and a spreadsheet with records.
C29_Witness ==
    /\ pc = "done"
    /\ fanout.invoked = 1
    /\ fanout.notifier_failed
    /\ ledger.st = "ok" /\ Len(ledger.data) > 0
    /\ excel.st = "ok" /\ Len(excel.data) > 0

(***************************************************************************)
(* C30: the engine takes the posts in input order, one at a time: the      *)
(* records of the ledger and the rows of the spreadsheet stand in the      *)
(* relative order of their posts in the input, the external calls are made *)
(* post after post, and no call is made for a post while an earlier post   *)
(* is still pending.                                                       *)
(***************************************************************************)
PostOf(rec) == CHOOSE k \in Posts : tweets[k].url = rec.url

InInputOrder(file) ==
    \A a, b \in 1..Len(file.data) :
        a < b => PostOf(file.data[a]) <= PostOf(file.data[b])

C30_PostsInOrderOneAtATime ==
    /\ InInputOrder(ledger)
    /\ InInputOrder(excel)
    /\ \A a, b \in 1..Len(calls) : a < b => calls[a][2] <= calls[b][2]
    /\ \A a \in 1..Len(calls) :
           \A k \in 1..(calls[a][2] - 1) : info[k].st # "Pending"
    /\ Processed \subseteq 1..(i - 1)

\* Two posts were persisted and the spreadsheet holds a row of each.
C30_Witness ==
    /\ Len(excel.data) = 2
    /\ PostOf(excel.data[1]) = 1
    /\ PostOf(excel.data[2]) = 2
    /\ info[1].st = "Persisted"
    /\ info[2].st = "Persisted"

(***************************************************************************)
(* C31: every post follows Pending -> Classified -> {Persisted | Skipped}. *)
(* Once the engine's loop has started, whatever the classifier answers or  *)
(* however it fails, the run ends with every post Persisted or Skipped; a  *)
(* Persisted post was classified and its verdict was positive; and a post  *)
(* that is Persisted or Skipped never changes again.                       *)
(***************************************************************************)
Settled(k) == info[k].st \in {"Persisted", "Skipped"}

PersistedWasPositive ==
    \A k \in Posts :
        info[k].st = "Persisted" =>
            /\ Called("verify", k)
            /\ info[k].answer # None
            /\ IsPositive(info[k].answer)

SettledStays ==
    \A k \in Posts : Settled(k) => info'[k] = info[k]

C31_PostStateMachine ==
    /\ []PersistedWasPositive
    /\ [][SettledStays]_vars
    /\ (pc = "loop") ~> (pc = "done" /\ \A k \in Posts : Settled(k))

\* A run over two posts has ended with one Persisted and one Skipped after
\* an error inside the loop body.
C31_Witness ==
    /\ pc = "done"
    /\ \E a, b \in Posts :
          /\ info[a].st = "Persisted"
          /\ info[b].st = "Skipped"
          /\ info[b].errs # {}

(***************************************************************************)
(* C32: for a ledger record whose published_date is what the engine stores *)
(* for a post with a valid legacy-format createdAt, the item send_to_api   *)
(* builds carries a published_date that is not null and denotes the same   *)
(* instant as the record's.                                                *)
(***************************************************************************)
EngineStoredDates ==
    {ParseTwitterDate(d) : d \in {t \in DateValues : IsLegacyText(t)}}

C32_UploadKeepsTheEngineDate ==
    \A n \in 1..Len(handed) :
        Len(handed[n].posts) = 1 =>
            \A k \in 1..Len(ledger.data) :
                ledger.data[k].published_date \in EngineStoredDates =>
                    /\ handed[n].posts[1][k].published_date # NoDate
                    /\ handed[n].posts[1][k].published_date
                           = ledger.data[k].published_date

(***************************************************************************)
(* C33: for a ledger of records as the engine builds them, whatever their  *)
(* scores (an integer, the empty marker or the raw answer), a call of      *)
(* send_to_api whose request goes through submits one POST holding one     *)
(* item per record, in the ledger's order.                                 *)
(***************************************************************************)
EngineBuilt(file) ==
    /\ file.st = "ok"
    /\ \A k \in 1..Len(file.data) : "fire_related_score" \in DOMAIN file.data[k]

C33_OneItemPerRecordInOnePost ==
    \A n \in 1..Len(handed) :
        (EngineBuilt(ledger) /\ handed[n].http # "error") =>
            /\ Len(handed[n].posts) = 1
            /\ Len(handed[n].posts[1]) = Len(ledger.data)
            /\ \A k \in 1..Len(ledger.data) :
                   handed[n].posts[1][k].url = ledger.data[k].url

(***************************************************************************)
(* C34: after any sequence of save_tweets_to_file calls on the run's file, *)
(* no two entries of the stored candidate collection share an id, whatever *)
(* the overlap of the fetched batches with each other and with the file.   *)
(***************************************************************************)
C34_StoredIdsAreUnique ==
    \A a, b \in 1..Len(output_file.data) :
        a # b => Get(output_file.data[a], "id") # Get(output_file.data[b], "id")

\* Two saves have been made, the second with a batch that repeats an id of
\* the file, and the file holds two posts.
C34_Witness ==
    /\ Len(output_file.data) = 2
    /\ \E n \in 1..Len(fetched) :
          /\ fetched[n].before.st = "ok"
          /\ fetched[n].after = output_file
          /\ \E j \in 1..Len(fetched[n].tweets) :
                \E k \in 1..Len(fetched[n].before.data) :
                    Get(fetched[n].tweets[j], "id")
                        = Get(fetched[n].before.data[k], "id")

(***************************************************************************)
(* C35: save_tweets_to_file never loses or replaces a stored post.  After  *)
(* a call whose rewrite was not cut short, the posts the file held before  *)
(* are the first posts of the file, unchanged and in their order (a stored *)
(* post wins over a fetched one with its id), and the new posts follow.    *)
(***************************************************************************)
IsPrefix(s, t) ==
    Len(s) <= Len(t) /\ \A k \in 1..Len(s) : t[k] = s[k]

C36_FailedQueryIsSkipped ==
    /\ \A n \in 1..Len(fetched) :
           fetched[n].failed =>
               /\ fetched[n].tweets = <<>>
               /\ ~fetched[n].raised
               /\ fetched[n].after = fetched[n].before
    /\ pc = "crashed" => ~fetched[Len(fetched)].failed
    /\ pc = "query" => i = Len(fetched) + 1
    /\ pc = "done" =>
           /\ Len(fetched) = MaxCalls
           /\ \A n \in 1..MaxCalls : fetched[n].fn = QueryFunction(n)

\* The first query failed, and the run ended after a later query stored
\* posts and the account query was made.
C36_Witness ==
    /\ pc = "done"
    /\ fetched[1].failed
    /\ \E n \in 2..Len(fetched) :
           ~fetched[n].failed /\ fetched[n].after.st = "ok"
                              /\ Len(fetched[n].after.data) > 0
    /\ fetched[Len(fetched)].fn = "fetch_user_tweets"

(***************************************************************************)
(* C37: the classifier calls are made without retry and in a fixed order.  *)
(* For a post the loop has handled, verify_fire_incident was called once   *)
(* when the post has text that is not blank and never otherwise;           *)
(* get_fire_related_score was called once when the verdict was positive    *)
(* and never otherwise; and the scoring call came after the verdict call   *)
(* and before both sink appends.  No call is made for a pending post.      *)
(***************************************************************************)
CallsOf(what, k) == {j \in 1..Len(calls) : calls[j] = <<what, k>>}

C37_ClassifierCallsOnceInOrder ==
    \A k \in Posts :
        IF info[k].st = "Pending"
        THEN \A j \in 1..Len(calls) : calls[j][2] # k
        ELSE /\ Cardinality(CallsOf("verify", k))
                  = (IF ReachesClassifier(tweets[k]) THEN 1 ELSE 0)
             /\ Cardinality(CallsOf("score", k))
                  = (IF /\ ReachesClassifier(tweets[k])
                        /\ IsPositive(info[k].answer)
                     THEN 1 ELSE 0)
             /\ \A s \in CallsOf("score", k) :
                    /\ \A v \in CallsOf("verify", k) : v < s
                    /\ \A w \in CallsOf("ledger", k) \cup CallsOf("excel", k) :
                           s < w
                    /\ CallsOf("ledger", k) # {}
                    /\ CallsOf("excel", k) # {}

\* One post got a positive verdict and was scored, another got a verdict
\* that is not positive and was not scored; the run is over.
C37_Witness ==
    /\ pc = "done"
    /\ \E a, b \in Posts :
          /\ CallsOf("score", a) # {}
          /\ CallsOf("verify", b) # {}
          /\ CallsOf("score", b) = {}

(***************************************************************************)
(* C38: the ledger is append-only.  Across every update_live_json call on  *)
(* a file that holds an array, the file holds an array afterwards and the  *)
(* array from before is a prefix of it: no entry is removed, moved or      *)
(* changed, and a call that skips or fails leaves the array as it was.     *)
(***************************************************************************)
C38_LedgerIsAppendOnly ==
    [][ (pc = "update_live_json" /\ ledger.st = "ok") =>
            /\ ledger'.st = "ok"
            /\ IsPrefix(ledger.data, ledger'.data) ]_vars

(***************************************************************************)
(* C39: run_fire_detection.main gates its steps in order.  No script runs  *)
(* when a required environment variable is missing; the verification       *)
(* script is started only after the search script has ended with return    *)
(* code 0 and a fire_tweets_72h_*.json file exists; and the pipeline       *)
(* reports success only after the verification script has ended with       *)
(* return code 0.                                                          *)
(***************************************************************************)
C39_PipelineStepsAreGated ==
    /\ MissingVars(env) # {} =>
           calls = <<>> /\ pc \in {"check_environment", "exit"}
    /\ \A j \in 1..Len(calls) :
           calls[j][1] = "verify_tweets.py" =>
               /\ j = 2
               /\ calls[1] = <<"tweet_fire_search.py", 0>>
               /\ output_file.st # "absent"
    /\ pc = "run_verification" =>
           calls = <<<<"tweet_fire_search.py", 0>>>> /\ output_file.st # "absent"
    /\ pc = "success" =>
           Len(calls) = 2 /\ calls[2] = <<"verify_tweets.py", 0>>

\* The pipeline has reported success.
C39_Witness ==
    /\ pc = "success"
    /\ MissingVars(env) = {}
    /\ Len(calls) = 2

====
